---------------------------- MODULE Spec2Model ----------------------------
(***************************************************************************)
(* Word-level diff of the revisions package.                               *)
(*                                                                         *)
(*   diff.py        diff_wordsToChars / diff_linesToCharsMunge (the symbol *)
(*                  codec), diff_wordMode (codec + diff_match_patch)       *)
(*   edits_html.py  EditsHtml.handle_diff and its closure deque (edit      *)
(*                  classification and offset reconciliation)              *)
(*                                                                         *)
(* A text is a sequence of one-character strings.  A symbol string is a    *)
(* sequence of naturals (the code points chr() is applied to).  Python     *)
(* lists are 0-based; the helpers below take 0-based indices and translate *)
(* to the 1-based TLA+ sequences.                                          *)
(*                                                                         *)
(* diff_match_patch is a library the package imports; dmp.diff_main and    *)
(* dmp.diff_charsToLines are modelled after the library's Python 3         *)
(* implementation (diff_main, diff_compute, diff_halfMatch, diff_bisect,   *)
(* diff_bisectSplit, diff_cleanupMerge), without its wall-clock deadline   *)
(* and without line mode, which needs texts of more than 100 symbols.      *)
(* The spaCy tokenizer is modelled on texts whose words are separated by   *)
(* exactly one space or by newlines: there a token is a maximal run of     *)
(* non-blank characters.                                                   *)
(***************************************************************************)
EXTENDS Integers, Sequences, FiniteSets, TLC

(***************************************************************************)
(* Bounds of the model.                                                    *)
(***************************************************************************)
\* Longest input text, counted in pieces (a piece is a word or a newline).
MaxPieces == 3

(***************************************************************************)
(* Program constants.                                                      *)
(***************************************************************************)
\* diff.py line 105: two thirds of the symbol space for text1.
maxLines1 == 666666
\* diff.py line 107: the rest for text2 (chr(1114112) throws).
maxLines2 == 1114111

DIFF_DELETE == 0 - 1
DIFF_INSERT == 1
DIFF_EQUAL == 0

\* The characters of the model's texts.  BQ stands for the backquote and
\* QT for the apostrophe: "``" and "''" are the two double-quote markers.
SP == " "
NL == "\n"
BQ == "bq"
QT == "'"

(***************************************************************************)
(* Python list / str helpers (0-based indices).                            *)
(***************************************************************************)
Min(a, b) == IF a < b THEN a ELSE b
Max(a, b) == IF a > b THEN a ELSE b

\* s[i:j] with Python's clamping and negative indices.
Slice(s, i, j) ==
    LET n  == Len(s)
        ii == IF i < 0 THEN Max(0, n + i) ELSE Min(i, n)
        jj == IF j < 0 THEN Max(0, n + j) ELSE Min(j, n)
    IN IF ii >= jj THEN <<>> ELSE SubSeq(s, ii + 1, jj)

\* s[i:]
SliceFrom(s, i) == Slice(s, i, Len(s))

\* s[i]
At(s, i) == s[i + 1]

RECURSIVE FindFrom(_, _, _)
\* text.find(sub, start): the first index >= start where sub occurs, or -1.
FindFrom(text, sub, start) ==
    IF start + Len(sub) > Len(text) THEN 0 - 1
    ELSE IF Slice(text, start, start + Len(sub)) = sub THEN start
    ELSE FindFrom(text, sub, start + 1)

RECURSIVE CountFrom(_, _, _)
\* str.count(sub): the number of non-overlapping occurrences.
CountFrom(text, sub, start) ==
    LET j == FindFrom(text, sub, start)
    IN IF j = 0 - 1 THEN 0 ELSE 1 + CountFrom(text, sub, j + Len(sub))

Count(text, sub) == CountFrom(text, sub, 0)

IsBlank(c) == c = SP \/ c = NL

RECURSIVE LStrip(_)
LStrip(s) == IF s # <<>> /\ IsBlank(Head(s)) THEN LStrip(Tail(s)) ELSE s

RECURSIVE RStrip(_)
RStrip(s) ==
    IF s # <<>> /\ IsBlank(s[Len(s)]) THEN RStrip(SubSeq(s, 1, Len(s) - 1)) ELSE s

\* str.strip()
Strip(s) == RStrip(LStrip(s))

RECURSIVE Split(_, _)
\* text.split(sep) for a one-character separator.
Split(text, sep) ==
    LET j == FindFrom(text, <<sep>>, 0)
    IN IF j = 0 - 1 THEN <<text>>
       ELSE <<Slice(text, 0, j)>> \o Split(SliceFrom(text, j + 1), sep)

RECURSIVE Join(_, _)
\* sep.join(words)
Join(words, sep) ==
    IF words = <<>> THEN <<>>
    ELSE IF Len(words) = 1 THEN words[1]
    ELSE words[1] \o sep \o Join(Tail(words), sep)

RECURSIVE Concat(_)
\* "".join(parts)
Concat(parts) == IF parts = <<>> THEN <<>> ELSE Head(parts) \o Concat(Tail(parts))

EndsWith(s, t) == Len(t) <= Len(s) /\ SubSeq(s, Len(s) - Len(t) + 1, Len(s)) = t
StartsWith(s, t) == Len(t) <= Len(s) /\ SubSeq(s, 1, Len(t)) = t

(***************************************************************************)
(* The tokenizer: nlp(line) gives the tokens of a line with w.idx, the     *)
(* token's start in the line.                                              *)
(***************************************************************************)
RECURSIVE TokensFrom(_, _)
TokensFrom(line, pos) ==
    IF pos >= Len(line) THEN <<>>
    ELSE IF IsBlank(At(line, pos)) THEN TokensFrom(line, pos + 1)
    ELSE LET sp == FindFrom(line, <<SP>>, pos)
             e  == IF sp = 0 - 1 THEN Len(line) ELSE sp
         IN <<[text |-> Slice(line, pos, e), idx |-> pos]>> \o TokensFrom(line, e)

nlp(line) == TokensFrom(line, 0)

(***************************************************************************)
(* diff.py: the symbol codec.                                              *)
(*                                                                         *)
(* lineArray is the registry (lineArray[0] is the junk entry ""), lineHash *)
(* its inverse dictionary.  Both are closed over by diff_linesToCharsMunge *)
(* and shared by its two calls.                                            *)
(***************************************************************************)
\* Lines 64-66: the (text, (idx, idx + len)) tuples of a line's tokens.
WordTexts(word_tuples) == [k \in 1..Len(word_tuples) |-> word_tuples[k].text]
WordOffsets(word_tuples) ==
    [k \in 1..Len(word_tuples) |->
        <<word_tuples[k].idx, word_tuples[k].idx + Len(word_tuples[k].text)>>]

RECURSIVE CollectWords(_, _, _)

\* Lines 63-70, one line: offset_list is rebound by the zip(*word_tuples) of
\* every non-blank line.
CollectLine(lines, words, offset_list, word_tuples) ==
    IF Strip(Head(lines)) # <<>> /\ word_tuples # <<>>
    THEN CollectWords(Tail(lines), words \o WordTexts(word_tuples), WordOffsets(word_tuples))
    ELSE CollectWords(Tail(lines), words, offset_list)

\* Lines 60-70: the loop over text.split("\n").
CollectWords(lines, words, offset_list) ==
    IF lines = <<>> THEN [words |-> words, offset_list |-> offset_list]
    ELSE CollectLine(lines, words, offset_list, nlp(Head(lines)))

\* Lines 72-74: the "\n" pseudo-word of a text that ends with a newline.
MungeNewline(text, c) ==
    [words |-> IF EndsWith(text, <<NL>>) THEN Append(c.words, <<NL>>) ELSE c.words,
     offset_list |-> c.offset_list]

\* Lines 60-74.
MungeWords(text) == MungeNewline(text, CollectWords(Split(text, NL), <<>>, <<>>))

\* Line 80: text = " ".join(words) + " "
JoinedText(words) == Join(words, <<SP>>) \o <<SP>>

RECURSIVE MungeLoopNoBail(_, _, _, _, _, _, _)
\* A loop that registers every new chunk on its own, whatever the size of
\* the registry.
MungeLoopNoBail(text, lineStart, lineEnd, chars, la, lh, maxLines) ==
    IF ~(lineEnd < Len(text) - 1)
    THEN [chars |-> chars, lineArray |-> la, lineHash |-> lh]
    ELSE LET found == FindFrom(text, <<SP>>, lineStart)
             le    == IF found = 0 - 1 THEN Len(text) - 1 ELSE found
             line  == Slice(text, lineStart, le + 1)
         IN IF line \in DOMAIN lh
            THEN MungeLoopNoBail(text, le + 1, le, Append(chars, lh[line]), la, lh, maxLines)
            ELSE MungeLoopNoBail(text, le + 1, le, Append(chars, Len(la)),
                                 Append(la, line), (line :> Len(la)) @@ lh, maxLines)

RECURSIVE MungeLoop(_, _, _, _, _, _, _)
\* Lines 82-101: the while loop that breaks the joined text on spaces.
MungeLoop(text, lineStart, lineEnd, chars, la, lh, maxLines) ==
    IF ~(lineEnd < Len(text) - 1)
    THEN [chars |-> chars, lineArray |-> la, lineHash |-> lh]
    ELSE LET found == FindFrom(text, <<SP>>, lineStart)
             le    == IF found = 0 - 1 THEN Len(text) - 1 ELSE found
             line  == Slice(text, lineStart, le + 1)
         IN IF line \in DOMAIN lh
            THEN MungeLoop(text, le + 1, le, Append(chars, lh[line]), la, lh, maxLines)
            ELSE LET bail  == Len(la) = maxLines
                     line2 == IF bail THEN SliceFrom(text, lineStart) ELSE line
                     le2   == IF bail THEN Len(text) ELSE le
                     la2   == Append(la, line2)
                 IN MungeLoop(text, le2 + 1, le2, Append(chars, Len(la2) - 1),
                              la2, (line2 :> (Len(la2) - 1)) @@ lh, maxLines)

\* Line 102: return "".join(chars), offset_list (with the registry the
\* closure has modified).
MungeReturn(r, offset_list) ==
    [chars |-> r.chars, offset_list |-> offset_list,
     lineArray |-> r.lineArray, lineHash |-> r.lineHash]

MungeEncode(w, la, lh, maxLines) ==
    MungeReturn(MungeLoop(JoinedText(w.words), 0, 0 - 1, <<>>, la, lh, maxLines),
                w.offset_list)

\* Lines 43-102.
diff_linesToCharsMunge(text, la, lh, maxLines) ==
    MungeEncode(MungeWords(text), la, lh, maxLines)

\* A decoder that looks every symbol up one registry entry too low.
diff_charsToLinesBelow(diffs, la) ==
    [k \in 1..Len(diffs) |->
        [op |-> diffs[k].op,
         text |-> Concat([j \in 1..Len(diffs[k].text) |-> At(la, diffs[k].text[j] - 1)])]]

\* dmp.diff_charsToLines(diff, lineArray): every symbol of a run is replaced
\* by its registry entry.
diff_charsToLines(diffs, la) ==
    [k \in 1..Len(diffs) |->
        [op |-> diffs[k].op,
         text |-> Concat([j \in 1..Len(diffs[k].text) |-> At(la, diffs[k].text[j])])]]

(***************************************************************************)
(* diff_match_patch: diff_main over two symbol strings (diff.py line 116). *)
(* A diff is a list of [op, text]; op is DIFF_DELETE, DIFF_INSERT or       *)
(* DIFF_EQUAL.                                                             *)
(***************************************************************************)
SetAt(s, i, v) == [s EXCEPT ![i + 1] = v]

Tup(op, text) == [op |-> op, text |-> text]

RECURSIVE diff_commonPrefix(_, _)
diff_commonPrefix(a, b) ==
    IF a # <<>> /\ b # <<>> /\ Head(a) = Head(b)
    THEN 1 + diff_commonPrefix(Tail(a), Tail(b)) ELSE 0

RECURSIVE diff_commonSuffix(_, _)
diff_commonSuffix(a, b) ==
    IF a # <<>> /\ b # <<>> /\ a[Len(a)] = b[Len(b)]
    THEN 1 + diff_commonSuffix(SubSeq(a, 1, Len(a) - 1), SubSeq(b, 1, Len(b) - 1))
    ELSE 0

RECURSIVE MergeSweep(_, _, _, _, _, _)
\* diff_cleanupMerge, first pass: the while loop over pointer that merges
\* the deletions and insertions between two equalities, factors out their
\* common prefix and suffix, and merges adjacent equalities.
MergeSweep(diffs, pointer, count_delete, count_insert, text_delete, text_insert) ==
    IF ~(pointer < Len(diffs)) THEN diffs
    ELSE LET cur == At(diffs, pointer) IN
      IF cur.op = DIFF_INSERT
      THEN MergeSweep(diffs, pointer + 1, count_delete, count_insert + 1,
                      text_delete, text_insert \o cur.text)
      ELSE IF cur.op = DIFF_DELETE
      THEN MergeSweep(diffs, pointer + 1, count_delete + 1, count_insert,
                      text_delete \o cur.text, text_insert)
      ELSE IF count_delete + count_insert > 1
      THEN LET both   == count_delete # 0 /\ count_insert # 0
               pre    == IF both THEN diff_commonPrefix(text_insert, text_delete) ELSE 0
               x      == pointer - count_delete - count_insert - 1
               attach == pre # 0 /\ x >= 0 /\ At(diffs, x).op = DIFF_EQUAL
               front  == pre # 0 /\ ~attach
               diffsA == IF attach
                         THEN SetAt(diffs, x, Tup(DIFF_EQUAL,
                                  At(diffs, x).text \o Slice(text_insert, 0, pre)))
                         ELSE IF front
                         THEN <<Tup(DIFF_EQUAL, Slice(text_insert, 0, pre))>> \o diffs
                         ELSE diffs
               ptrA   == IF front THEN pointer + 1 ELSE pointer
               insA   == SliceFrom(text_insert, pre)
               delA   == SliceFrom(text_delete, pre)
               suf    == IF both THEN diff_commonSuffix(insA, delA) ELSE 0
               diffsB == IF suf # 0
                         THEN SetAt(diffsA, ptrA, Tup(At(diffsA, ptrA).op,
                                  SliceFrom(insA, Len(insA) - suf) \o At(diffsA, ptrA).text))
                         ELSE diffsA
               insB   == Slice(insA, 0, Len(insA) - suf)
               delB   == Slice(delA, 0, Len(delA) - suf)
               new_ops == (IF Len(delB) # 0 THEN <<Tup(DIFF_DELETE, delB)>> ELSE <<>>)
                          \o (IF Len(insB) # 0 THEN <<Tup(DIFF_INSERT, insB)>> ELSE <<>>)
               ptrB   == ptrA - (count_delete + count_insert)
               diffsC == Slice(diffsB, 0, ptrB) \o new_ops
                         \o SliceFrom(diffsB, ptrB + count_delete + count_insert)
           IN MergeSweep(diffsC, ptrB + Len(new_ops) + 1, 0, 0, <<>>, <<>>)
      ELSE IF pointer # 0 /\ At(diffs, pointer - 1).op = DIFF_EQUAL
      THEN MergeSweep(
               Slice(SetAt(diffs, pointer - 1,
                           Tup(DIFF_EQUAL, At(diffs, pointer - 1).text \o cur.text)),
                     0, pointer)
               \o SliceFrom(diffs, pointer + 1),
               pointer, 0, 0, <<>>, <<>>)
      ELSE MergeSweep(diffs, pointer + 1, 0, 0, <<>>, <<>>)

RECURSIVE ShiftSweep(_, _, _)
\* diff_cleanupMerge, second pass: a single edit between two equalities is
\* shifted sideways when that eliminates an equality.
ShiftSweep(diffs, pointer, changes) ==
    IF ~(pointer < Len(diffs) - 1) THEN [diffs |-> diffs, changes |-> changes]
    ELSE LET prev == At(diffs, pointer - 1)
             cur  == At(diffs, pointer)
             next == At(diffs, pointer + 1)
         IN IF prev.op = DIFF_EQUAL /\ next.op = DIFF_EQUAL
            THEN IF EndsWith(cur.text, prev.text)
                 THEN LET d1 == IF prev.text # <<>>
                                THEN SetAt(SetAt(diffs, pointer,
                                         Tup(cur.op, prev.text \o
                                             Slice(cur.text, 0, Len(cur.text) - Len(prev.text)))),
                                         pointer + 1, Tup(next.op, prev.text \o next.text))
                                ELSE diffs
                      IN ShiftSweep(Slice(d1, 0, pointer - 1) \o SliceFrom(d1, pointer),
                                    pointer + 1, TRUE)
                 ELSE IF StartsWith(cur.text, next.text)
                 THEN LET d1 == SetAt(SetAt(diffs, pointer - 1,
                                         Tup(prev.op, prev.text \o next.text)),
                                      pointer,
                                      Tup(cur.op, SliceFrom(cur.text, Len(next.text))
                                                  \o next.text))
                      IN ShiftSweep(Slice(d1, 0, pointer + 1) \o SliceFrom(d1, pointer + 2),
                                    pointer + 1, TRUE)
                 ELSE ShiftSweep(diffs, pointer + 1, changes)
            ELSE ShiftSweep(diffs, pointer + 1, changes)

RECURSIVE diff_cleanupMerge(_)

\* diff_cleanupMerge, after the second pass: "if changes: diff_cleanupMerge".
CleanupAgain(shifted) ==
    IF shifted.changes THEN diff_cleanupMerge(shifted.diffs) ELSE shifted.diffs

\* diff_cleanupMerge, between the passes: the dummy entry is removed.
CleanupShift(swept) ==
    CleanupAgain(ShiftSweep(IF swept[Len(swept)].text = <<>>
                            THEN SubSeq(swept, 1, Len(swept) - 1) ELSE swept,
                            1, FALSE))

diff_cleanupMerge(diffs0) ==
    CleanupShift(MergeSweep(Append(diffs0, Tup(DIFF_EQUAL, <<>>)), 0, 0, 0, <<>>, <<>>))

NoHalfMatch ==
    [common |-> <<>>, longtext_a |-> <<>>, longtext_b |-> <<>>,
     shorttext_a |-> <<>>, shorttext_b |-> <<>>]

\* diff_halfMatchI, the body of its while loop: the common substring around
\* the occurrence j of the seed replaces best when it is longer.
HalfMatchBest(longtext, shorttext, i, j, prefixLength, suffixLength, best) ==
    IF Len(best.common) < suffixLength + prefixLength
    THEN [common |-> Slice(shorttext, j - suffixLength, j + prefixLength),
          longtext_a  |-> Slice(longtext, 0, i - suffixLength),
          longtext_b  |-> SliceFrom(longtext, i + prefixLength),
          shorttext_a |-> Slice(shorttext, 0, j - suffixLength),
          shorttext_b |-> SliceFrom(shorttext, j + prefixLength)]
    ELSE best

RECURSIVE HalfMatchScan(_, _, _, _, _, _)
\* diff_halfMatchI's while loop over the occurrences j of the seed in the
\* shorter text.
HalfMatchScan(longtext, shorttext, i, seed, j, best) ==
    IF j = 0 - 1 THEN best
    ELSE HalfMatchScan(longtext, shorttext, i, seed,
             FindFrom(shorttext, seed, j + 1),
             HalfMatchBest(longtext, shorttext, i, j,
                 diff_commonPrefix(SliceFrom(longtext, i), SliceFrom(shorttext, j)),
                 diff_commonSuffix(Slice(longtext, 0, i), Slice(shorttext, 0, j)),
                 best))

\* diff_halfMatchI's result: found = FALSE stands for None.
HalfMatchResult(longtext, best) ==
    [found |-> Len(best.common) * 2 >= Len(longtext), hm |-> best]

HalfMatchSeeded(longtext, shorttext, i, seed) ==
    HalfMatchResult(longtext,
        HalfMatchScan(longtext, shorttext, i, seed,
                      FindFrom(shorttext, seed, 0), NoHalfMatch))

diff_halfMatchI(longtext, shorttext, i) ==
    HalfMatchSeeded(longtext, shorttext, i,
                    Slice(longtext, i, i + (Len(longtext) \div 4)))

\* diff_halfMatch: the half-match chosen among the two, as the texts of
\* text1 and text2 (swap: text1 is the longer text).
HalfMatchOrient(hm, swap) ==
    [found |-> TRUE,
     text1_a |-> IF swap THEN hm.longtext_a ELSE hm.shorttext_a,
     text1_b |-> IF swap THEN hm.longtext_b ELSE hm.shorttext_b,
     text2_a |-> IF swap THEN hm.shorttext_a ELSE hm.longtext_a,
     text2_b |-> IF swap THEN hm.shorttext_b ELSE hm.longtext_b,
     mid_common |-> hm.common]

HalfMatchPick(hm1, hm2, swap) ==
    IF ~hm1.found /\ ~hm2.found THEN [found |-> FALSE]
    ELSE HalfMatchOrient(IF ~hm2.found THEN hm1.hm
                         ELSE IF ~hm1.found THEN hm2.hm
                         ELSE IF Len(hm1.hm.common) > Len(hm2.hm.common) THEN hm1.hm
                         ELSE hm2.hm,
                         swap)

HalfMatchLongShort(longtext, shorttext, swap) ==
    IF Len(longtext) < 4 \/ Len(shorttext) * 2 < Len(longtext)
    THEN [found |-> FALSE]
    ELSE HalfMatchPick(
             diff_halfMatchI(longtext, shorttext, (Len(longtext) + 3) \div 4),
             diff_halfMatchI(longtext, shorttext, (Len(longtext) + 1) \div 2),
             swap)

\* diff_halfMatch (Diff_Timeout is the library default, 1.0, so the check is
\* not skipped).
diff_halfMatch(text1, text2) ==
    HalfMatchLongShort(IF Len(text1) > Len(text2) THEN text1 ELSE text2,
                       IF Len(text1) > Len(text2) THEN text2 ELSE text1,
                       Len(text1) > Len(text2))

RECURSIVE SnakeForward(_, _, _, _)
\* while x1 < len(text1) and y1 < len(text2) and text1[x1] == text2[y1]
SnakeForward(text1, text2, x, y) ==
    IF x < Len(text1) /\ y < Len(text2) /\ At(text1, x) = At(text2, y)
    THEN SnakeForward(text1, text2, x + 1, y + 1) ELSE x

RECURSIVE SnakeReverse(_, _, _, _)
\* while x2 < len(text1) and y2 < len(text2) and text1[-x2-1] == text2[-y2-1]
SnakeReverse(text1, text2, x, y) ==
    IF x < Len(text1) /\ y < Len(text2)
       /\ At(text1, Len(text1) - x - 1) = At(text2, Len(text2) - y - 1)
    THEN SnakeReverse(text1, text2, x + 1, y + 1) ELSE x

RECURSIVE FrontPath(_, _, _, _, _, _)
\* diff_bisect: "for k1 in range(-d + k1start, d + 1 - k1end, 2)".  st holds
\* v1, v2, k1start, k1end, k2start, k2end and, once the paths overlap, the
\* split point (hit, x, y).
FrontPath(text1, text2, d, k1, stop, st) ==
    IF st.hit \/ k1 >= stop THEN st
    ELSE LET n1 == Len(text1)
             n2 == Len(text2)
             max_d == (n1 + n2 + 1) \div 2
             delta == n1 - n2
             k1_offset == max_d + k1
             x0 == IF k1 = 0 - d
                      \/ (k1 # d /\ At(st.v1, k1_offset - 1) < At(st.v1, k1_offset + 1))
                   THEN At(st.v1, k1_offset + 1)
                   ELSE At(st.v1, k1_offset - 1) + 1
             x1 == SnakeForward(text1, text2, x0, x0 - k1)
             y1 == x1 - k1
             st1 == [st EXCEPT !.v1 = SetAt(st.v1, k1_offset, x1)]
             k2_offset == max_d + delta - k1
         IN IF x1 > n1
            THEN FrontPath(text1, text2, d, k1 + 2, stop, [st1 EXCEPT !.k1end = @ + 2])
            ELSE IF y1 > n2
            THEN FrontPath(text1, text2, d, k1 + 2, stop, [st1 EXCEPT !.k1start = @ + 2])
            ELSE IF (delta % 2 # 0)
                    /\ k2_offset >= 0 /\ k2_offset < 2 * max_d
                    /\ At(st1.v2, k2_offset) # 0 - 1
                    /\ x1 >= n1 - At(st1.v2, k2_offset)
            THEN [st1 EXCEPT !.hit = TRUE, !.x = x1, !.y = y1]
            ELSE FrontPath(text1, text2, d, k1 + 2, stop, st1)

RECURSIVE ReversePath(_, _, _, _, _, _)
\* diff_bisect: "for k2 in range(-d + k2start, d + 1 - k2end, 2)".
ReversePath(text1, text2, d, k2, stop, st) ==
    IF st.hit \/ k2 >= stop THEN st
    ELSE LET n1 == Len(text1)
             n2 == Len(text2)
             max_d == (n1 + n2 + 1) \div 2
             delta == n1 - n2
             k2_offset == max_d + k2
             x0 == IF k2 = 0 - d
                      \/ (k2 # d /\ At(st.v2, k2_offset - 1) < At(st.v2, k2_offset + 1))
                   THEN At(st.v2, k2_offset + 1)
                   ELSE At(st.v2, k2_offset - 1) + 1
             x2 == SnakeReverse(text1, text2, x0, x0 - k2)
             y2 == x2 - k2
             st1 == [st EXCEPT !.v2 = SetAt(st.v2, k2_offset, x2)]
             k1_offset == max_d + delta - k2
         IN IF x2 > n1
            THEN ReversePath(text1, text2, d, k2 + 2, stop, [st1 EXCEPT !.k2end = @ + 2])
            ELSE IF y2 > n2
            THEN ReversePath(text1, text2, d, k2 + 2, stop, [st1 EXCEPT !.k2start = @ + 2])
            ELSE IF (delta % 2 = 0)
                    /\ k1_offset >= 0 /\ k1_offset < 2 * max_d
                    /\ At(st1.v1, k1_offset) # 0 - 1
                    /\ At(st1.v1, k1_offset) >= n1 - x2
            THEN [st1 EXCEPT !.hit = TRUE, !.x = At(st1.v1, k1_offset),
                             !.y = max_d + At(st1.v1, k1_offset) - k1_offset]
            ELSE ReversePath(text1, text2, d, k2 + 2, stop, st1)

RECURSIVE BisectLoop(_, _, _, _)
\* diff_bisect: "for d in range(max_d)".
BisectLoop(text1, text2, d, st) ==
    IF st.hit \/ d >= (Len(text1) + Len(text2) + 1) \div 2 THEN st
    ELSE LET f == FrontPath(text1, text2, d, st.k1start - d, d + 1 - st.k1end, st)
             r == ReversePath(text1, text2, d, f.k2start - d, d + 1 - f.k2end, f)
         IN BisectLoop(text1, text2, d + 1, r)

\* diff_bisect up to the split: the middle snake's (x, y), or hit = FALSE when
\* the texts have nothing in common.
BisectPoint(text1, text2) ==
    LET max_d == (Len(text1) + Len(text2) + 1) \div 2
        v     == [k \in 1..(2 * max_d) |-> IF k = max_d + 2 THEN 0 ELSE 0 - 1]
    IN BisectLoop(text1, text2, 0,
                  [v1 |-> v, v2 |-> v, k1start |-> 0, k1end |-> 0,
                   k2start |-> 0, k2end |-> 0, hit |-> FALSE, x |-> 0, y |-> 0])

RECURSIVE diff_main(_, _)

\* diff_bisectSplit.
diff_bisectSplit(text1, text2, x, y) ==
    diff_main(Slice(text1, 0, x), Slice(text2, 0, y))
    \o diff_main(SliceFrom(text1, x), SliceFrom(text2, y))

BisectResult(text1, text2, p) ==
    IF p.hit THEN diff_bisectSplit(text1, text2, p.x, p.y)
    ELSE <<Tup(DIFF_DELETE, text1), Tup(DIFF_INSERT, text2)>>

diff_bisect(text1, text2) == BisectResult(text1, text2, BisectPoint(text1, text2))

\* diff_compute, from the half-match on.
ComputeSplit(text1, text2, hm) ==
    IF hm.found
    THEN diff_main(hm.text1_a, hm.text2_a)
         \o <<Tup(DIFF_EQUAL, hm.mid_common)>>
         \o diff_main(hm.text1_b, hm.text2_b)
    ELSE diff_bisect(text1, text2)

\* diff_compute, once the longer and the shorter text are told apart; i is
\* longtext.find(shorttext) and op the status of what only the longer has.
ComputeLongShort(text1, text2, longtext, shorttext, i, op) ==
    IF i # 0 - 1
    THEN <<Tup(op, Slice(longtext, 0, i)), Tup(DIFF_EQUAL, shorttext),
           Tup(op, SliceFrom(longtext, i + Len(shorttext)))>>
    ELSE IF Len(shorttext) = 1
    THEN <<Tup(DIFF_DELETE, text1), Tup(DIFF_INSERT, text2)>>
    ELSE ComputeSplit(text1, text2, diff_halfMatch(text1, text2))

diff_compute(text1, text2) ==
    IF text1 = <<>> THEN <<Tup(DIFF_INSERT, text2)>>
    ELSE IF text2 = <<>> THEN <<Tup(DIFF_DELETE, text1)>>
    ELSE ComputeLongShort(text1, text2,
             IF Len(text1) > Len(text2) THEN text1 ELSE text2,
             IF Len(text1) > Len(text2) THEN text2 ELSE text1,
             IF Len(text1) > Len(text2) THEN FindFrom(text1, text2, 0)
                                        ELSE FindFrom(text2, text1, 0),
             IF Len(text1) > Len(text2) THEN DIFF_DELETE ELSE DIFF_INSERT)

\* diff_main, the middle block: after the common prefix (pre symbols) the
\* common suffix is trimmed, the rest compared, and the two restored.
MainMiddle(commonprefix, t1, t2, suf) ==
    diff_cleanupMerge(
        (IF commonprefix # <<>> THEN <<Tup(DIFF_EQUAL, commonprefix)>> ELSE <<>>)
        \o diff_compute(Slice(t1, 0, Len(t1) - suf), Slice(t2, 0, Len(t2) - suf))
        \o (IF suf # 0 THEN <<Tup(DIFF_EQUAL, SliceFrom(t1, Len(t1) - suf))>> ELSE <<>>))

MainTrimmed(commonprefix, t1, t2) ==
    MainMiddle(commonprefix, t1, t2, diff_commonSuffix(t1, t2))

MainPrefix(text1, text2, pre) ==
    MainTrimmed(Slice(text1, 0, pre), SliceFrom(text1, pre), SliceFrom(text2, pre))

\* A diff that deletes text1 symbol by symbol and then inserts text2 symbol
\* by symbol, without merging the runs.
diff_mainUnmerged(text1, text2) ==
    [k \in 1..Len(text1) |-> Tup(DIFF_DELETE, <<text1[k]>>)]
    \o [k \in 1..Len(text2) |-> Tup(DIFF_INSERT, <<text2[k]>>)]

diff_main(text1, text2) ==
    IF text1 = text2
    THEN IF text1 # <<>> THEN <<Tup(DIFF_EQUAL, text1)>> ELSE <<>>
    ELSE MainPrefix(text1, text2, diff_commonPrefix(text1, text2))

(***************************************************************************)
(* edits_html.py: the helpers of EditsHtml.handle_diff.                    *)
(***************************************************************************)
SENTINEL == <<0 - 1, 0 - 1>>

\* A deque that gives the sentinel whenever the list is shorter than the
\* token count.
dequeAllOrNothing(offset_list, diff_string, num_tokens) ==
    LET diff_offsets == Slice(offset_list, 0, num_tokens)
        num_double_quotes == Count(diff_string, <<QT, QT>>) + Count(diff_string, <<BQ, BQ>>)
    IN [edit_offset |-> IF Len(diff_offsets) < num_tokens THEN SENTINEL
                        ELSE <<diff_offsets[1][1],
                               diff_offsets[Len(diff_offsets)][2] - num_double_quotes>>,
        rest |-> SliceFrom(offset_list, num_tokens)]

\* Lines 83-99, the closure deque: the span covered by the first num_tokens
\* entries of offset_list, and the entries left.
deque(offset_list, diff_string, num_tokens) ==
    LET diff_offsets == Slice(offset_list, 0, num_tokens)
        num_double_quotes == Count(diff_string, <<QT, QT>>) + Count(diff_string, <<BQ, BQ>>)
    IN [edit_offset |-> IF diff_offsets = <<>> THEN SENTINEL
                        ELSE <<diff_offsets[1][1],
                               diff_offsets[Len(diff_offsets)][2] - num_double_quotes>>,
        rest |-> SliceFrom(offset_list, num_tokens)]

\* Lines 64-65: the text rendered by the template of its edit type.
format_edit(text, edit_type) == [markup |-> edit_type, text |-> text]

\* Lines 143-144: text appended without markup.
plain(text) == [markup |-> "none", text |-> text]

\* Lines 409-416.
get_token_offsets(token_offsets, sent_offset) ==
    [k \in 1..Len(token_offsets) |->
        <<token_offsets[k][1] + sent_offset, token_offsets[k][2] + sent_offset>>]

\* Lines 149-162: the record appended to edit_dicts.
edit_dict(edit_type, edit_offset1, edit_offset2, c1, c2) ==
    [edit_type |-> edit_type,
     offset1 |-> edit_offset1,
     offset2 |-> edit_offset2,
     text1 |-> IF edit_offset1[1] >= 0 THEN Slice(c1, edit_offset1[1], edit_offset1[2]) ELSE <<>>,
     text2 |-> IF edit_offset2[1] >= 0 THEN Slice(c2, edit_offset2[1], edit_offset2[2]) ELSE <<>>]

(***************************************************************************)
(* The input texts: up to MaxPieces pieces, a piece being a word of Vocab  *)
(* or a newline; two adjacent words are separated by one space.            *)
(***************************************************************************)
Vocab == { <<"a">>, <<"b">>, <<BQ, BQ>> }

PieceSeqs == UNION { [1..n -> Vocab \cup { <<NL>> }] : n \in 0..MaxPieces }

RECURSIVE Render(_)
Render(pieces) ==
    IF pieces = <<>> THEN <<>>
    ELSE IF Len(pieces) = 1 THEN pieces[1]
    ELSE IF pieces[1] # <<NL>> /\ pieces[2] # <<NL>>
    THEN pieces[1] \o <<SP>> \o Render(Tail(pieces))
    ELSE pieces[1] \o Render(Tail(pieces))

Texts == { Render(p) : p \in PieceSeqs }

(***************************************************************************)
(* State.                                                                  *)
(***************************************************************************)
VARIABLES
    pc,              \* the position in get_diff_html's processing of one pair
    text1, text2,    \* the arguments of diff_wordMode
    lineArray,       \* diff_wordsToChars: the registry
    lineHash,        \* diff_wordsToChars: chunk -> symbol
    chars1, chars2,  \* the encoded texts
    offsets1, offsets2,  \* the offsets diff_wordsToChars returns
    diff,            \* diff_wordMode: diff
    char_diff,       \* diff_wordMode: char_diff
    i,               \* handle_diff: the index of the current run
    num_tokens_list, \* handle_diff
    token_offsets1,  \* handle_diff: what is left of its argument offsets1
    token_offsets2,  \* handle_diff: what is left of its argument offsets2
    html1, html2,    \* handle_diff
    edit_dicts,      \* handle_diff
    run_of,          \* for each record of edit_dicts, the value of i it was made at
    lists_of,        \* for each record of edit_dicts, the two offsets lists as
                     \* they were when the record's iteration began
    num_edits,       \* EditsHtml.num_edits
    worker,          \* two sentence pairs processed side by side: for each,
                     \* the locals of its diff_wordMode and handle_diff calls
    opc,             \* the position in building one document's offset table
    content,         \* AlignedText.content1 (or content2)
    doc_paragraphs,  \* AlignedText.p1s: the sentences of every paragraph
    sentence_offsets,  \* AlignedText.sentence_offsets1: paragraph -> local spans
    offsets,         \* get_sentence_offsets: offsets
    curr_offset,     \* get_sentence_offsets: curr_offset
    par_i,           \* get_sentence_offsets: i
    cursor_at,       \* the value of curr_offset at the start of each iteration
    dpc,             \* the position in create_html_file
    doc,             \* the AlignedText object: both documents and the alignment
    par_k,           \* get_diff_html: i, the index into par_alignment
    alignments,      \* EditsHtml.edits_json_dict["alignments"]
    file1_sentences, \* EditsHtml.edits_json_dict["file1_sentences"]
    file2_sentences, \* EditsHtml.edits_json_dict["file2_sentences"]
    text_html1,      \* EditsHtml.html1
    text_html2,      \* EditsHtml.html2
    seen_p1s,        \* get_diff_html: seen_p1s
    seen_p2s,        \* get_diff_html: seen_p2s
    files            \* the output files create_html_file has written

vars == <<pc, text1, text2, lineArray, lineHash, chars1, chars2, offsets1, offsets2,
          diff, char_diff, i, num_tokens_list, token_offsets1, token_offsets2,
          html1, html2, edit_dicts, run_of, lists_of, num_edits, worker,
          opc, content, doc_paragraphs, sentence_offsets, offsets, curr_offset,
          par_i, cursor_at, dpc, doc, par_k, alignments, file1_sentences,
          file2_sentences, text_html1, text_html2, seen_p1s, seen_p2s, files>>

docVars == <<dpc, doc, par_k, alignments, file1_sentences, file2_sentences,
             text_html1, text_html2, seen_p1s, seen_p2s, files>>

\* create_html_file has not been called.
DocIdle ==
    /\ dpc = "idle"
    /\ doc = <<>>
    /\ par_k = 0
    /\ alignments = <<>>
    /\ file1_sentences = <<>> /\ file2_sentences = <<>>
    /\ text_html1 = <<>> /\ text_html2 = <<>>
    /\ seen_p1s = {} /\ seen_p2s = {}
    /\ files = {}

offsetVars == <<opc, content, doc_paragraphs, sentence_offsets, offsets, curr_offset,
                par_i, cursor_at>>

\* The variables that the processing of one sentence pair leaves alone.
otherVars == <<worker, offsetVars, docVars>>

\* No offset table is being built.
OffsetsIdle ==
    /\ opc = "idle"
    /\ content = <<>>
    /\ doc_paragraphs = <<>>
    /\ sentence_offsets = <<>>
    /\ offsets = <<>>
    /\ curr_offset = 0
    /\ par_i = 0
    /\ cursor_at = <<>>

codecVars == <<lineArray, lineHash, chars1, chars2, offsets1, offsets2>>
handleVars == <<i, num_tokens_list, token_offsets1, token_offsets2,
                html1, html2, edit_dicts, run_of, lists_of, num_edits>>

\* A document that consists of the one sentence: content1 is text1, and the
\* sentence starts at offset 0 (edits_html.py lines 18-19, 483, 486).
content1 == text1
content2 == text2
sent_offset1 == 0
sent_offset2 == 0

Init ==
    /\ pc = "start"
    /\ text1 \in Texts
    /\ text2 \in Texts
    /\ lineArray = <<>>
    /\ lineHash = <<>>
    /\ chars1 = <<>>
    /\ chars2 = <<>>
    /\ offsets1 = <<>>
    /\ offsets2 = <<>>
    /\ diff = <<>>
    /\ char_diff = <<>>
    /\ i = 0
    /\ num_tokens_list = <<>>
    /\ token_offsets1 = <<>>
    /\ token_offsets2 = <<>>
    /\ html1 = <<>>
    /\ html2 = <<>>
    /\ edit_dicts = <<>>
    /\ run_of = <<>>
    /\ lists_of = <<>>
    /\ num_edits = 0
    /\ worker = <<>>
    /\ OffsetsIdle
    /\ DocIdle

(***************************************************************************)
(* diff_wordMode(text1, text2).                                            *)
(***************************************************************************)
\* Line 106: chars1, offsets1 = ..., and the registry as the call leaves it.
Munged1(r) ==
    /\ chars1' = r.chars
    /\ offsets1' = r.offset_list
    /\ lineArray' = r.lineArray
    /\ lineHash' = r.lineHash

\* Line 108: chars2, offsets2 = ..., and the registry as the call leaves it.
Munged2(r) ==
    /\ chars2' = r.chars
    /\ offsets2' = r.offset_list
    /\ lineArray' = r.lineArray
    /\ lineHash' = r.lineHash

\* diff.py lines 36-41 and 105-106: the fresh registry and the first call.
Munge1 ==
    /\ pc = "start"
    /\ Munged1(diff_linesToCharsMunge(text1, << <<>> >>, <<>>, maxLines1))
    /\ pc' = "munged1"
    /\ UNCHANGED <<text1, text2, chars2, offsets2, diff, char_diff>>
    /\ UNCHANGED handleVars
    /\ UNCHANGED otherVars

\* A second call that starts from a registry of its own.
Munge2Fresh ==
    /\ pc = "munged1"
    /\ Munged2(diff_linesToCharsMunge(text2, << <<>> >>, <<>>, maxLines2))
    /\ pc' = "munged2"
    /\ UNCHANGED <<text1, text2, chars1, offsets1, diff, char_diff>>
    /\ UNCHANGED handleVars
    /\ UNCHANGED otherVars

\* diff.py lines 107-109: the second call, on the same registry.
Munge2 ==
    /\ pc = "munged1"
    /\ Munged2(diff_linesToCharsMunge(text2, lineArray, lineHash, maxLines2))
    /\ pc' = "munged2"
    /\ UNCHANGED <<text1, text2, chars1, offsets1, diff, char_diff>>
    /\ UNCHANGED handleVars
    /\ UNCHANGED otherVars

\* diff.py lines 116-117: the diff of the symbol strings and its copy.
DiffMain ==
    /\ pc = "munged2"
    /\ diff' = diff_main(chars1, chars2)
    /\ char_diff' = diff'
    /\ pc' = "diffed"
    /\ UNCHANGED <<text1, text2>>
    /\ UNCHANGED codecVars
    /\ UNCHANGED handleVars
    /\ UNCHANGED otherVars

\* diff.py lines 118-121: the runs decoded in place; diff_wordMode returns.
CharsToLines ==
    /\ pc = "diffed"
    /\ diff' = diff_charsToLines(diff, lineArray)
    /\ pc' = "returned"
    /\ UNCHANGED <<text1, text2, char_diff>>
    /\ UNCHANGED codecVars
    /\ UNCHANGED handleVars
    /\ UNCHANGED otherVars

(***************************************************************************)
(* EditsHtml.handle_diff(diff, char_diff, offsets1, offsets2, ...).        *)
(***************************************************************************)
\* edits_html.py lines 482-496 and 75-81.  list(zip(*char_diff))[1] raises
\* IndexError on an empty char_diff.
HandleDiffEnter ==
    /\ pc = "returned"
    /\ IF char_diff = <<>>
       THEN /\ pc' = "raised"
            /\ UNCHANGED <<num_tokens_list, token_offsets1, token_offsets2>>
       ELSE /\ pc' = "loop"
            /\ num_tokens_list' = [k \in 1..Len(char_diff) |-> Len(char_diff[k].text)]
            /\ token_offsets1' = get_token_offsets(offsets1, sent_offset1)
            /\ token_offsets2' = get_token_offsets(offsets2, sent_offset2)
    /\ i' = 0
    /\ html1' = <<>>
    /\ html2' = <<>>
    /\ edit_dicts' = <<>>
    /\ run_of' = <<>>
    /\ lists_of' = <<>>
    /\ UNCHANGED <<text1, text2, diff, char_diff, num_edits>>
    /\ UNCHANGED codecVars
    /\ UNCHANGED otherVars

last_index == Len(diff) - 1
diff_type == At(diff, i).op
diff_string == Strip(At(diff, i).text)
num_tokens == At(num_tokens_list, i)
\* A lookahead that takes a delete run followed by an equal run for a
\* substitution.
is_substitutionEqualAhead ==
    diff_type = DIFF_DELETE /\ i < last_index /\ At(diff, i + 1).op = DIFF_EQUAL

is_substitution == diff_type = DIFF_DELETE /\ i < last_index /\ At(diff, i + 1).op = DIFF_INSERT

InLoop == pc = "loop" /\ i <= last_index

\* Lines 108-122 and 149-165.
Substitution ==
    /\ InLoop
    /\ diff_type = DIFF_DELETE
    /\ is_substitution
    /\ LET subbed_string == Strip(At(diff, i + 1).text)
           d1 == deque(token_offsets1, diff_string, num_tokens)
           d2 == deque(token_offsets2, diff_string, At(num_tokens_list, i + 1))
       IN /\ html1' = IF Len(diff_string) > 1
                      THEN Append(html1, format_edit(diff_string, "substitution")) ELSE html1
          /\ html2' = IF Len(diff_string) > 1
                      THEN Append(html2, format_edit(subbed_string, "substitution")) ELSE html2
          /\ token_offsets1' = d1.rest
          /\ token_offsets2' = d2.rest
          /\ edit_dicts' = Append(edit_dicts,
                 edit_dict("substitution", d1.edit_offset, d2.edit_offset, content1, content2))
    /\ num_edits' = num_edits + 1
    /\ run_of' = Append(run_of, i)
    /\ lists_of' = Append(lists_of, <<token_offsets1, token_offsets2>>)
    /\ i' = i + 2
    /\ UNCHANGED <<pc, text1, text2, diff, char_diff, num_tokens_list>>
    /\ UNCHANGED codecVars
    /\ UNCHANGED otherVars

\* A deletion branch that also takes a span from the offsets of text2.
DeletionBothSides ==
    /\ InLoop
    /\ diff_type = DIFF_DELETE
    /\ ~is_substitution
    /\ LET d1 == deque(token_offsets1, diff_string, num_tokens)
           d2 == deque(token_offsets2, diff_string, num_tokens)
       IN /\ html1' = IF Len(diff_string) > 1
                      THEN Append(html1, format_edit(diff_string, "deletion")) ELSE html1
          /\ token_offsets1' = d1.rest
          /\ edit_dicts' = Append(edit_dicts,
                 edit_dict("deletion", d1.edit_offset, d2.edit_offset, content1, content2))
    /\ num_edits' = num_edits + 1
    /\ run_of' = Append(run_of, i)
    /\ lists_of' = Append(lists_of, <<token_offsets1, token_offsets2>>)
    /\ i' = i + 1
    /\ UNCHANGED <<pc, text1, text2, diff, char_diff, num_tokens_list, token_offsets2, html2>>
    /\ UNCHANGED codecVars
    /\ UNCHANGED otherVars

\* Lines 123-131 and 149-167.
Deletion ==
    /\ InLoop
    /\ diff_type = DIFF_DELETE
    /\ ~is_substitution
    /\ LET d1 == deque(token_offsets1, diff_string, num_tokens)
       IN /\ html1' = IF Len(diff_string) > 1
                      THEN Append(html1, format_edit(diff_string, "deletion")) ELSE html1
          /\ token_offsets1' = d1.rest
          /\ edit_dicts' = Append(edit_dicts,
                 edit_dict("deletion", d1.edit_offset, SENTINEL, content1, content2))
    /\ num_edits' = num_edits + 1
    /\ run_of' = Append(run_of, i)
    /\ lists_of' = Append(lists_of, <<token_offsets1, token_offsets2>>)
    /\ i' = i + 1
    /\ UNCHANGED <<pc, text1, text2, diff, char_diff, num_tokens_list, token_offsets2, html2>>
    /\ UNCHANGED codecVars
    /\ UNCHANGED otherVars

\* Lines 132-140 and 149-167.
Insertion ==
    /\ InLoop
    /\ diff_type = DIFF_INSERT
    /\ LET d2 == deque(token_offsets2, diff_string, num_tokens)
       IN /\ html2' = IF Len(diff_string) > 1
                      THEN Append(html2, format_edit(diff_string, "insertion")) ELSE html2
          /\ token_offsets2' = d2.rest
          /\ edit_dicts' = Append(edit_dicts,
                 edit_dict("insertion", SENTINEL, d2.edit_offset, content1, content2))
    /\ num_edits' = num_edits + 1
    /\ run_of' = Append(run_of, i)
    /\ lists_of' = Append(lists_of, <<token_offsets1, token_offsets2>>)
    /\ i' = i + 1
    /\ UNCHANGED <<pc, text1, text2, diff, char_diff, num_tokens_list, token_offsets1, html1>>
    /\ UNCHANGED codecVars
    /\ UNCHANGED otherVars

\* Lines 141-147 and 149-167.
Same ==
    /\ InLoop
    /\ diff_type = DIFF_EQUAL
    /\ LET d1 == deque(token_offsets1, diff_string, num_tokens)
           d2 == deque(token_offsets2, diff_string, num_tokens)
       IN /\ html1' = Append(html1, plain(diff_string))
          /\ html2' = Append(html2, plain(diff_string))
          /\ token_offsets1' = d1.rest
          /\ token_offsets2' = d2.rest
          /\ edit_dicts' = Append(edit_dicts,
                 edit_dict("same", d1.edit_offset, d2.edit_offset, content1, content2))
    /\ run_of' = Append(run_of, i)
    /\ lists_of' = Append(lists_of, <<token_offsets1, token_offsets2>>)
    /\ i' = i + 1
    /\ UNCHANGED <<pc, text1, text2, diff, char_diff, num_tokens_list, num_edits>>
    /\ UNCHANGED codecVars
    /\ UNCHANGED otherVars

\* Lines 101 and 169: the loop ends and handle_diff returns.
HandleDiffReturn ==
    /\ pc = "loop"
    /\ ~(i <= last_index)
    /\ pc' = "done"
    /\ UNCHANGED <<text1, text2, diff, char_diff>>
    /\ UNCHANGED codecVars
    /\ UNCHANGED handleVars
    /\ UNCHANGED otherVars

Next ==
    \/ Munge1
    \/ Munge2
    \/ DiffMain
    \/ CharsToLines
    \/ HandleDiffEnter
    \/ Substitution
    \/ Deletion
    \/ Insertion
    \/ Same
    \/ HandleDiffReturn

Spec == Init /\ [][Next]_vars

(***************************************************************************)
(* Properties of diff_wordMode and handle_diff.                            *)
(***************************************************************************)
\* diff_wordMode has returned: diff holds the decoded runs.
Returned == pc \in {"returned", "loop", "done"}

RECURSIVE RunsText(_, _)
\* The texts of the runs of diffs whose status is in ops, concatenated in order.
RunsText(diffs, ops) ==
    IF diffs = <<>> THEN <<>>
    ELSE (IF Head(diffs).op \in ops THEN Head(diffs).text ELSE <<>>)
         \o RunsText(Tail(diffs), ops)

HasOp(diffs, op) == \E k \in 1..Len(diffs) : diffs[k].op = op

\* C1 (round-trip): once diff_wordMode has returned, the decoded texts of the
\* equal and delete runs, concatenated in order, are the words of text1 joined
\* by single spaces plus one trailing space, and those of the equal and insert
\* runs are the same for text2.
C1_RoundTrip ==
    Returned =>
        /\ RunsText(diff, {DIFF_EQUAL, DIFF_DELETE}) = JoinedText(MungeWords(text1).words)
        /\ RunsText(diff, {DIFF_EQUAL, DIFF_INSERT}) = JoinedText(MungeWords(text2).words)

\* A returned diff with an equal, a delete and an insert run of two texts
\* that hold words.
C1_Witness ==
    /\ Returned
    /\ HasOp(diff, DIFF_EQUAL) /\ HasOp(diff, DIFF_DELETE) /\ HasOp(diff, DIFF_INSERT)
    /\ Len(MungeWords(text1).words) >= 2
    /\ Len(MungeWords(text2).words) >= 2

Records == 1..Len(edit_dicts)

\* The records handle_diff made while i was k.
RecordsAt(k) == { j \in Records : run_of[j] = k }

\* Run k is a delete run and run k + 1 an insert run.
DeleteThenInsert(k) ==
    /\ k >= 0 /\ k + 1 <= last_index
    /\ At(diff, k).op = DIFF_DELETE
    /\ At(diff, k + 1).op = DIFF_INSERT

\* C2 (substitution merge): when handle_diff has returned, every delete run
\* that is immediately followed by an insert run has exactly one record, of
\* type substitution, and the insert run has no record of its own (the loop
\* advanced past both); and at no time does edit_dicts hold a deletion record
\* immediately followed by an insertion record.
C2_SubstitutionMerge ==
    /\ pc = "done" =>
           \A k \in 0..(Len(diff) - 2) :
               DeleteThenInsert(k) =>
                   /\ Cardinality(RecordsAt(k)) = 1
                   /\ \A j \in RecordsAt(k) : edit_dicts[j].edit_type = "substitution"
                   /\ RecordsAt(k + 1) = {}
    /\ \A j \in 1..(Len(edit_dicts) - 1) :
           ~(edit_dicts[j].edit_type = "deletion" /\ edit_dicts[j + 1].edit_type = "insertion")

\* handle_diff has returned from a diff in which a delete run is followed by
\* an insert run and then by another run, with a substitution record made.
C2_Witness ==
    /\ pc = "done"
    /\ \E k \in 0..(Len(diff) - 3) :
           /\ DeleteThenInsert(k)
           /\ \E j \in RecordsAt(k) : edit_dicts[j].edit_type = "substitution"
           /\ RecordsAt(k + 2) # {}

\* C3 (sentinel correctness): every deletion record has offset2 = (-1,-1) and
\* text2 = "", and every insertion record has offset1 = (-1,-1) and text1 = "".
C3_SentinelCorrectness ==
    \A j \in Records :
        /\ edit_dicts[j].edit_type = "deletion" =>
               edit_dicts[j].offset2 = SENTINEL /\ edit_dicts[j].text2 = <<>>
        /\ edit_dicts[j].edit_type = "insertion" =>
               edit_dicts[j].offset1 = SENTINEL /\ edit_dicts[j].text1 = <<>>

\* handle_diff has returned a deletion record and an insertion record, each
\* with a span on its own side, while both offsets lists held entries.
C3_Witness ==
    /\ pc = "done"
    /\ offsets1 # <<>> /\ offsets2 # <<>>
    /\ \E j \in Records : edit_dicts[j].edit_type = "deletion"
                          /\ edit_dicts[j].offset1 # SENTINEL
    /\ \E j \in Records : edit_dicts[j].edit_type = "insertion"
                          /\ edit_dicts[j].offset2 # SENTINEL

RECURSIVE RunsTokens(_, _, _)
\* The sum of the token counts of the runs whose status is in ops.
RunsTokens(diffs, counts, ops) ==
    IF diffs = <<>> THEN 0
    ELSE (IF Head(diffs).op \in ops THEN Head(counts) ELSE 0)
         + RunsTokens(Tail(diffs), Tail(counts), ops)

\* handle_diff has computed num_tokens_list.
Counted == pc \in {"loop", "done"}

\* The words diff_linesToCharsMunge collects from a text (the tokens of its
\* lines, and the newline that ends it), and the tokens alone.
Words(text) == MungeWords(text).words
Tokens(text) == CollectWords(Split(text, NL), <<>>, <<>>).words

\* C4 (coverage): the token counts handle_diff computes for the equal and
\* delete runs sum to the number of word tokens of text1, and those of the
\* equal and insert runs to the number of word tokens of text2.
C4_Coverage ==
    Counted =>
        /\ RunsTokens(diff, num_tokens_list, {DIFF_EQUAL, DIFF_DELETE}) = Len(Words(text1))
        /\ RunsTokens(diff, num_tokens_list, {DIFF_EQUAL, DIFF_INSERT}) = Len(Words(text2))

\* C5 (identical input): when a text is diffed against itself, the diff is one
\* equal run whose token count is the number of tokens of the text, and
\* handle_diff returns exactly one record, of type same, without incrementing
\* num_edits.
C5_IdenticalInput ==
    (text1 = text2) =>
        /\ Returned => Len(diff) = 1 /\ diff[1].op = DIFF_EQUAL
        /\ Counted => num_tokens_list = <<Len(Words(text1))>>
        /\ pc = "done" => /\ Len(edit_dicts) = 1
                          /\ edit_dicts[1].edit_type = "same"
                          /\ num_edits = 0

\* The text of a run that spans the given words: each word followed by a space.
RunText(ws) == Concat([k \in 1..Len(ws) |-> ws[k] \o <<SP>>])

\* C6 (empty side): when exactly one of the two texts has no tokens,
\* diff_wordMode returns exactly one run, an insert run if text1 is the empty
\* one and a delete run if text2 is, that spans all the tokens of the other
\* text.
C6_EmptySide ==
    Returned =>
        /\ (Tokens(text1) = <<>> /\ Tokens(text2) # <<>>) =>
               diff = <<Tup(DIFF_INSERT, RunText(Words(text2)))>>
        /\ (Tokens(text2) = <<>> /\ Tokens(text1) # <<>>) =>
               diff = <<Tup(DIFF_DELETE, RunText(Words(text1)))>>

Range(s) == { s[k] : k \in 1..Len(s) }

\* The run of one status over the given words, omitted when there are none.
RunOf(op, ws) == IF ws = <<>> THEN <<>> ELSE <<Tup(op, RunText(ws))>>

\* text1 is P.D.S and text2 is P.I.S for the first p words P and the last s
\* words S of both, where the words of D and of I occur nowhere else and D
\* and I are not both empty.
SingleBlock(w1, w2, p, s) ==
    /\ p + s <= Len(w1) /\ p + s <= Len(w2)
    /\ SubSeq(w1, 1, p) = SubSeq(w2, 1, p)
    /\ SubSeq(w1, Len(w1) - s + 1, Len(w1)) = SubSeq(w2, Len(w2) - s + 1, Len(w2))
    /\ p + s < Len(w1) \/ p + s < Len(w2)
    /\ LET P == Range(SubSeq(w1, 1, p))
           S == Range(SubSeq(w1, Len(w1) - s + 1, Len(w1)))
           D == Range(SubSeq(w1, p + 1, Len(w1) - s))
           I == Range(SubSeq(w2, p + 1, Len(w2) - s))
       IN D \cap (P \cup S \cup I) = {} /\ I \cap (P \cup S \cup D) = {}

SingleBlockRuns(w1, w2, p, s) ==
    RunOf(DIFF_EQUAL, SubSeq(w1, 1, p))
    \o RunOf(DIFF_DELETE, SubSeq(w1, p + 1, Len(w1) - s))
    \o RunOf(DIFF_INSERT, SubSeq(w2, p + 1, Len(w2) - s))
    \o RunOf(DIFF_EQUAL, SubSeq(w1, Len(w1) - s + 1, Len(w1)))

NoNewline(text) == \A k \in 1..Len(text) : text[k] # NL

\* C7 (single-block edit): for texts P.D.S and P.I.S of whole words,
\* diff_wordMode returns exactly the runs equal(P), delete(D), insert(I),
\* equal(S), the empty ones omitted, each run's text being its words each
\* followed by one space.
C7_SingleBlockEdit ==
    (Returned /\ NoNewline(text1) /\ NoNewline(text2)) =>
        \A p, s \in 0..MaxPieces :
            SingleBlock(Words(text1), Words(text2), p, s) =>
                diff = SingleBlockRuns(Words(text1), Words(text2), p, s)

\* The chunks of a text: each word with the space that follows it; the joined
\* text of no words is one space, which is a chunk of its own.
ChunksOf(ws) == IF ws = <<>> THEN << <<SP>> >> ELSE [k \in 1..Len(ws) |-> ws[k] \o <<SP>>]

Decoded(chars) == [k \in 1..Len(chars) |-> At(lineArray, chars[k])]

\* The symbols emitted so far, in the order of their emission.
Emitted == chars1 \o chars2

\* C8 (symbol registry): after either encoding call, the registry holds the
\* reserved entry at index 0 and then the distinct chunks seen so far, each
\* once, lineHash being its inverse; the emitted symbols are the values 1..n
\* in first-seen order (0 is never emitted); and every symbol of chars1 and of
\* chars2 stands for the chunk at its place in its text, so that a chunk has
\* the same symbol in both texts and two chunks never share one.
C8_SymbolRegistry ==
    pc # "start" =>
        LET n == Len(lineArray) - 1 IN
        /\ At(lineArray, 0) = <<>>
        /\ \A a, b \in 1..n : a # b => At(lineArray, a) # At(lineArray, b)
        /\ DOMAIN lineHash = { At(lineArray, k) : k \in 1..n }
        /\ \A k \in 1..n : lineHash[At(lineArray, k)] = k
        /\ Range(Emitted) = 1..n
        /\ \A q \in 1..Len(Emitted) :
               \/ \E r \in 1..(q - 1) : Emitted[r] = Emitted[q]
               \/ Emitted[q] = Cardinality(Range(SubSeq(Emitted, 1, q - 1))) + 1
        /\ Decoded(chars1) = ChunksOf(Words(text1))
        /\ pc # "munged1" => Decoded(chars2) = ChunksOf(Words(text2))

\* Both texts are encoded; text2 repeats a chunk of text1 and brings a new
\* one, and text1 holds a chunk twice.
C8_Witness ==
    /\ pc = "munged2"
    /\ Range(chars1) \cap Range(chars2) # {}
    /\ Range(chars2) \ Range(chars1) # {}
    /\ Len(chars1) > Cardinality(Range(chars1))

\* C9 (edit record validity): every substitution record has offset1 and
\* offset2 different from (-1,-1), and every same record has both offsets
\* different from (-1,-1) and text1 equal to text2.
C9_RecordValidity ==
    \A j \in Records :
        /\ edit_dicts[j].edit_type = "substitution" =>
               edit_dicts[j].offset1 # SENTINEL /\ edit_dicts[j].offset2 # SENTINEL
        /\ edit_dicts[j].edit_type = "same" =>
               /\ edit_dicts[j].offset1 # SENTINEL /\ edit_dicts[j].offset2 # SENTINEL
               /\ edit_dicts[j].text1 = edit_dicts[j].text2

\* The offsets list of a side (1 or 2) that record j consumed from, as it was
\* before, and the token count that was asked of it.
Consumes(j, side) ==
    IF side = 1 THEN edit_dicts[j].edit_type \in {"substitution", "deletion", "same"}
    ELSE edit_dicts[j].edit_type \in {"substitution", "insertion", "same"}

Asked(j, side) ==
    IF side = 2 /\ edit_dicts[j].edit_type = "substitution"
    THEN At(num_tokens_list, run_of[j] + 1)
    ELSE At(num_tokens_list, run_of[j])

Underrun(j, side) == Consumes(j, side) /\ Len(lists_of[j][side]) < Asked(j, side)

EmittedOffset(j, side) == IF side = 1 THEN edit_dicts[j].offset1 ELSE edit_dicts[j].offset2

\* The number of runs record j stands for.
Step(j) == IF edit_dicts[j].edit_type = "substitution" THEN 2 ELSE 1

OwnRunText(j, side) ==
    IF side = 2 /\ edit_dicts[j].edit_type = "substitution"
    THEN Strip(At(diff, run_of[j] + 1).text)
    ELSE Strip(At(diff, run_of[j]).text)

\* The entries record j consumed from the offsets list of a side.
Consumed(j, side) == Slice(lists_of[j][side], 0, Asked(j, side))

QuoteMarkers(text) == Count(text, <<QT, QT>>) + Count(text, <<BQ, BQ>>)

\* C17 (quote correction): for every record and each side with a span other
\* than (-1,-1), the span's end is the end of the last token consumed on that
\* side minus the number of '' and `` markers in that side's own run text; for
\* a substitution offset2 is corrected by the markers of the inserted text.
C17_QuoteCorrection ==
    Counted =>
        \A j \in Records : \A side \in {1, 2} :
            (Consumes(j, side) /\ EmittedOffset(j, side) # SENTINEL) =>
                /\ Consumed(j, side) # <<>>
                /\ EmittedOffset(j, side)[2] =
                       Consumed(j, side)[Len(Consumed(j, side))][2]
                       - QuoteMarkers(OwnRunText(j, side))

\* What is left of a side's offsets list after record j.
ListAfter(j, side) ==
    IF j < Len(edit_dicts) THEN lists_of[j + 1][side]
    ELSE IF side = 1 THEN token_offsets1 ELSE token_offsets2

\* C18 (offset consumption): every record removes exactly the token count of
\* its run from the front of the offsets list of each side it consumes (for a
\* substitution the delete run's count from offsets1 and the insert run's
\* from offsets2) and leaves the other side's list unchanged; the span's
\* begin is the start of the first consumed token; and when handle_diff
\* returns both lists are empty.
C18_OffsetConsumption ==
    Counted =>
        /\ \A j \in Records : \A side \in {1, 2} :
               IF Consumes(j, side)
               THEN /\ Len(lists_of[j][side]) >= Asked(j, side)
                    /\ ListAfter(j, side) = SliceFrom(lists_of[j][side], Asked(j, side))
                    /\ EmittedOffset(j, side)[1] = lists_of[j][side][1][1]
               ELSE ListAfter(j, side) = lists_of[j][side]
        /\ pc = "done" => token_offsets1 = <<>> /\ token_offsets2 = <<>>

\* The boundary-delimited chunks of a decoded run text, and its words.
ChunkCount(text) == Count(text, <<SP>>)
WordCount(text) == Cardinality({ k \in 1..Len(Split(text, SP)) : Split(text, SP)[k] # <<>> })

\* C20 (token count of a run): for every run, the token count handle_diff
\* uses (the number of symbols of the run in char_diff) is the number of
\* boundary-delimited chunks of the run's decoded text and the number of word
\* tokens the run covers.
C20_RunTokenCount ==
    Counted =>
        \A k \in 1..Len(diff) :
            /\ num_tokens_list[k] = ChunkCount(diff[k].text)
            /\ num_tokens_list[k] = WordCount(diff[k].text)

(***************************************************************************)
(* Two sentence pairs processed side by side.                              *)
(*                                                                         *)
(* Each worker runs diff_wordMode and then handle_diff on a pair of its    *)
(* own.  The locals of both calls (the registry, the diff, the offsets     *)
(* lists, i, edit_dicts) are the worker's; self.num_edits is the one       *)
(* attribute of the EditsHtml object that handle_diff writes, by the       *)
(* statement self.num_edits += 1, which reads the attribute and stores the *)
(* sum in two steps.                                                       *)
(***************************************************************************)
\* Longest text of a worker's pair, in words.
MaxPairPieces == 1

Workers == {1, 2}

PairTexts == { Render(p) : p \in UNION { [1..n -> Vocab] : n \in 0..MaxPairPieces } }

\* diff.py lines 118-122: the decoded diff, char_diff and the offsets.
WordModeReturn(r1, r2, cd) ==
    [diff |-> diff_charsToLines(cd, r2.lineArray), char_diff |-> cd,
     offsets1 |-> r1.offset_list, offsets2 |-> r2.offset_list,
     lineArray |-> r2.lineArray]

\* diff.py lines 116-117.
WordModeDiff(r1, r2) == WordModeReturn(r1, r2, diff_main(r1.chars, r2.chars))

\* diff.py lines 107-108: the second encoding call, on the registry of the first.
WordModeSecond(t2, r1) ==
    WordModeDiff(r1, diff_linesToCharsMunge(t2, r1.lineArray, r1.lineHash, maxLines2))

\* diff.py lines 112-122 with 36-41 and 105-106: one call of diff_wordMode,
\* with the registry diff_wordsToChars creates for it.
diff_wordMode(t1, t2) ==
    WordModeSecond(t2, diff_linesToCharsMunge(t1, << <<>> >>, <<>>, maxLines1))

\* A worker before its call of diff_wordMode.
WorkerStart(t1, t2) ==
    [pc |-> "start", text1 |-> t1, text2 |-> t2, lineArray |-> <<>>,
     diff |-> <<>>, char_diff |-> <<>>, offsets1 |-> <<>>, offsets2 |-> <<>>,
     i |-> 0, edit_dicts |-> <<>>, loaded |-> 0]

\* edits_html.py lines 480-496 and 75-81: diff_wordMode has returned and
\* handle_diff is entered (the sentence is the document, at offset 0).
WorkerEntered(w, r) ==
    [w EXCEPT !.pc = "loop", !.lineArray = r.lineArray, !.diff = r.diff,
              !.char_diff = r.char_diff,
              !.offsets1 = get_token_offsets(r.offsets1, sent_offset1),
              !.offsets2 = get_token_offsets(r.offsets2, sent_offset2)]

\* edits_html.py lines 149-167: the record is appended and i advanced.
RunOut(w, edit_type, d1, d2, step) ==
    [w EXCEPT !.offsets1 = d1.rest, !.offsets2 = d2.rest,
              !.edit_dicts = Append(@, edit_dict(edit_type, d1.edit_offset, d2.edit_offset,
                                                 w.text1, w.text2)),
              !.i = @ + step]

\* The side of a record that consumes no offsets.
NoSpan(offset_list) == [edit_offset |-> SENTINEL, rest |-> offset_list]

\* edits_html.py lines 102-147: one iteration of the loop on the worker's
\* locals.
RunStep(w, dtype, dstr, n) ==
    IF dtype = DIFF_DELETE
    THEN IF w.i < Len(w.diff) - 1 /\ At(w.diff, w.i + 1).op = DIFF_INSERT
         THEN RunOut(w, "substitution", deque(w.offsets1, dstr, n),
                     deque(w.offsets2, dstr, Len(At(w.char_diff, w.i + 1).text)), 2)
         ELSE RunOut(w, "deletion", deque(w.offsets1, dstr, n), NoSpan(w.offsets2), 1)
    ELSE IF dtype = DIFF_INSERT
    THEN RunOut(w, "insertion", NoSpan(w.offsets1), deque(w.offsets2, dstr, n), 1)
    ELSE RunOut(w, "same", deque(w.offsets1, dstr, n), deque(w.offsets2, dstr, n), 1)

RunIteration(w) ==
    RunStep(w, At(w.diff, w.i).op, Strip(At(w.diff, w.i).text), Len(At(w.char_diff, w.i).text))

WorkerInLoop(k) == worker[k].pc = "loop" /\ worker[k].i <= Len(worker[k].diff) - 1

pairFrame == <<pc, text1, text2, diff, char_diff, codecVars, i, num_tokens_list,
               token_offsets1, token_offsets2, html1, html2, edit_dicts, run_of, lists_of,
               offsetVars, docVars>>

InitPairs ==
    /\ worker \in [Workers -> { WorkerStart(t1, t2) : t1 \in PairTexts, t2 \in PairTexts }]
    /\ num_edits = 0
    /\ pc = "start"
    /\ text1 = <<>> /\ text2 = <<>>
    /\ lineArray = <<>> /\ lineHash = <<>>
    /\ chars1 = <<>> /\ chars2 = <<>>
    /\ offsets1 = <<>> /\ offsets2 = <<>>
    /\ diff = <<>> /\ char_diff = <<>>
    /\ i = 0
    /\ num_tokens_list = <<>>
    /\ token_offsets1 = <<>> /\ token_offsets2 = <<>>
    /\ html1 = <<>> /\ html2 = <<>>
    /\ edit_dicts = <<>> /\ run_of = <<>> /\ lists_of = <<>>
    /\ OffsetsIdle
    /\ DocIdle

\* edits_html.py line 480 and lines 75-81.
WDiff(k) ==
    /\ worker[k].pc = "start"
    /\ worker' = [worker EXCEPT ![k] =
                      WorkerEntered(@, diff_wordMode(worker[k].text1, worker[k].text2))]
    /\ UNCHANGED num_edits
    /\ UNCHANGED pairFrame

\* Lines 106-140, an edit run, up to the read of self.num_edits in
\* self.num_edits += 1 (lines 122, 131, 140).
WEdit(k) ==
    /\ WorkerInLoop(k)
    /\ At(worker[k].diff, worker[k].i).op # DIFF_EQUAL
    /\ worker' = [worker EXCEPT ![k] =
                      [RunIteration(@) EXCEPT !.pc = "store", !.loaded = num_edits]]
    /\ UNCHANGED num_edits
    /\ UNCHANGED pairFrame

\* The store of self.num_edits += 1.
WStore(k) ==
    /\ worker[k].pc = "store"
    /\ num_edits' = worker[k].loaded + 1
    /\ worker' = [worker EXCEPT ![k].pc = "loop"]
    /\ UNCHANGED pairFrame

\* Lines 141-147 and 149-167: an equal run.
WSame(k) ==
    /\ WorkerInLoop(k)
    /\ At(worker[k].diff, worker[k].i).op = DIFF_EQUAL
    /\ worker' = [worker EXCEPT ![k] = RunIteration(@)]
    /\ UNCHANGED num_edits
    /\ UNCHANGED pairFrame

\* Lines 101 and 169.
WReturn(k) ==
    /\ worker[k].pc = "loop"
    /\ ~(worker[k].i <= Len(worker[k].diff) - 1)
    /\ worker' = [worker EXCEPT ![k].pc = "done"]
    /\ UNCHANGED num_edits
    /\ UNCHANGED pairFrame

NextPairs ==
    \E k \in Workers :
        \/ WDiff(k)
        \/ WEdit(k)
        \/ WStore(k)
        \/ WSame(k)
        \/ WReturn(k)

SpecPairs == InitPairs /\ [][NextPairs]_vars

RECURSIVE RunAll(_)
\* handle_diff run to its end on a worker's locals alone.
RunAll(w) == IF w.i <= Len(w.diff) - 1 THEN RunAll(RunIteration(w)) ELSE w

\* The records a pair gets when it is processed on its own.
AloneRecords(t1, t2) ==
    RunAll(WorkerEntered(WorkerStart(t1, t2), diff_wordMode(t1, t2))).edit_dicts

EditCount(records) ==
    Cardinality({ j \in 1..Len(records) : records[j].edit_type # "same" })

PairsDone == DOMAIN worker = Workers /\ \A k \in Workers : worker[k].pc = "done"

\* C16 (independence of sentence-pair diffs): when two pairs have been
\* processed side by side, in whatever interleaving, each has the edit
\* records it gets when processed on its own, its registry holds chunks of
\* its own texts only, and num_edits is what processing one pair after the
\* other gives: the number of edit records of both.
C16_Independence ==
    PairsDone =>
        /\ \A k \in Workers :
               /\ worker[k].edit_dicts = AloneRecords(worker[k].text1, worker[k].text2)
               /\ Range(worker[k].lineArray) \subseteq
                      {<<>>} \cup Range(ChunksOf(Words(worker[k].text1)))
                             \cup Range(ChunksOf(Words(worker[k].text2)))
        /\ num_edits = EditCount(worker[1].edit_dicts) + EditCount(worker[2].edit_dicts)

(***************************************************************************)
(* aligned_text.py: the sentence offset table of one document.             *)
(*                                                                         *)
(* sentence_tokenize splits the content into paragraphs and segments the   *)
(* non-blank ones; get_sentence_offsets turns the paragraph-local sentence *)
(* spans into spans of the document.  The sentence segmenter (spaCy) is    *)
(* modelled on paragraphs whose words are separated by one space: a        *)
(* sentence ends with a word that ends in a full stop, or with the         *)
(* paragraph; a space that leads the paragraph is a token of its own, at   *)
(* index 0, and so belongs to the first sentence.  The whitespace          *)
(* normalisation of read_paragraphs (textacy) is not modelled: the content *)
(* is stripped (line 153), and its paragraphs may be empty, blank, or      *)
(* begin or end with a space.                                              *)
(***************************************************************************)
\* Most paragraphs of a document.
MaxPars == 3

DOT == "."
\* U+00A0 and U+2019, the characters unicode_normalize puts in for " " and "'".
NBSP == "nbsp"
RSQ == "rsq"

\* utils.py lines 60-63: every ASCII form of _NON_ASCII (lines 24-32) is
\* replaced by its Unicode character, then NFKD is applied, which brings the
\* no-break space back to a space and leaves the quotation mark.
unicode_normalize(text) ==
    LET replaced == [k \in 1..Len(text) |->
                        IF text[k] = SP THEN NBSP ELSE IF text[k] = QT THEN RSQ ELSE text[k]]
    IN [k \in 1..Len(replaced) |-> IF replaced[k] = NBSP THEN SP ELSE replaced[k]]

RECURSIVE SentSpans(_, _, _)
\* parsed.sents: the (start_index, end_index) of each sentence, given the
\* tokens not yet in a sentence and the start of the sentence being read.
SentSpans(tokens, start, first) ==
    IF tokens = <<>> THEN <<>>
    ELSE LET t == Head(tokens)
             s == IF first THEN start ELSE t.idx
             e == t.idx + Len(t.text)
         IN IF t.text[Len(t.text)] = DOT \/ Len(tokens) = 1
            THEN << <<s, e>> >> \o SentSpans(Tail(tokens), 0, FALSE)
            ELSE SentSpans(Tail(tokens), s, TRUE)

\* Lines 127-135: the spans of the sentences of a non-blank paragraph.
parsed_sents(paragraph) ==
    IF Head(paragraph) = SP
    THEN SentSpans(nlp(paragraph), 0, TRUE)
    ELSE SentSpans(nlp(paragraph), 0, FALSE)

\* Lines 130-137: sentences, offset_list of a paragraph.
SentTexts(paragraph, spans) ==
    [k \in 1..Len(spans) |-> unicode_normalize(Slice(paragraph, spans[k][1], spans[k][2]))]

\* Lines 125-141, one paragraph: its entry of paragraphs.
ParagraphSentences(paragraph) ==
    IF Strip(paragraph) # <<>> THEN SentTexts(paragraph, parsed_sents(paragraph))
    ELSE <<paragraph>>

\* Lines 121-142: paragraphs, and offsets, a dictionary keyed by the index
\* (from 0) of every non-blank paragraph.
TokenizedParagraphs(orig_paragraphs) ==
    [k \in 1..Len(orig_paragraphs) |-> ParagraphSentences(orig_paragraphs[k])]

TokenizedOffsets(orig_paragraphs) ==
    [k \in { j \in 0..(Len(orig_paragraphs) - 1) : Strip(At(orig_paragraphs, j)) # <<>> } |->
        parsed_sents(At(orig_paragraphs, k))]

RECURSIVE SentenceOffsetBefore(_, _)
\* edits_html.py lines 398-406: the number of global sentence indices taken
\* by the paragraphs before par_index.
SentenceOffsetBefore(paragraphs, par_index) ==
    IF par_index <= 0 THEN 0
    ELSE SentenceOffsetBefore(paragraphs, par_index - 1)
         + (IF At(At(paragraphs, par_index - 1), 0) # <<>>
            THEN Len(At(paragraphs, par_index - 1)) ELSE 1)

\* edits_html.py lines 390-407.
get_sent_indices(par_index, paragraphs, sentence_list) ==
    [k \in 1..Len(sentence_list) |->
        sentence_list[k] + SentenceOffsetBefore(paragraphs, par_index)]

\* The documents: up to MaxPars paragraphs joined by newlines, stripped.
Bodies == { <<"a", DOT>>, <<"a", DOT, SP, "a", DOT>>, <<"a", SP, "a", DOT>> }
Margins == { <<>>, <<SP>> }
ParTexts == { <<>>, <<SP>> } \cup { l \o b \o t : l \in Margins, b \in Bodies, t \in Margins }
RawContents == { Join(ps, <<NL>>) : ps \in UNION { [1..n -> ParTexts] : n \in 1..MaxPars } }

\* aligned_text.py lines 26-31: of the preproc pipeline, the whitespace
\* normalisation: a run of line breaks becomes one line break, a run of
\* spaces one space, and the ends of the text are stripped.
RECURSIVE CollapseRuns(_)
CollapseRuns(text) ==
    IF Len(text) < 2 THEN text
    ELSE IF Head(text) = text[2] /\ Head(text) \in {NL, SP}
         THEN CollapseRuns(Tail(text))
         ELSE <<Head(text)>> \o CollapseRuns(Tail(text))

preproc(text) == Strip(CollapseRuns(text))

\* aligned_text.py lines 150-153: the content read_paragraphs hands to
\* sentence_tokenize.
read_content(raw) == Strip(preproc(unicode_normalize(raw)))

Contents == { read_content(raw) : raw \in RawContents }

\* The variables of the single sentence pair and of the two workers.
diffVars == <<pc, text1, text2, codecVars, diff, char_diff, handleVars, worker>>

\* No sentence pair is being processed.
DiffIdle ==
    /\ pc = "start"
    /\ text1 = <<>> /\ text2 = <<>>
    /\ lineArray = <<>> /\ lineHash = <<>>
    /\ chars1 = <<>> /\ chars2 = <<>>
    /\ offsets1 = <<>> /\ offsets2 = <<>>
    /\ diff = <<>> /\ char_diff = <<>>
    /\ i = 0
    /\ num_tokens_list = <<>>
    /\ token_offsets1 = <<>> /\ token_offsets2 = <<>>
    /\ html1 = <<>> /\ html2 = <<>>
    /\ edit_dicts = <<>> /\ run_of = <<>> /\ lists_of = <<>>
    /\ num_edits = 0
    /\ worker = <<>>

InitOffsets ==
    /\ opc = "start"
    /\ content \in Contents
    /\ doc_paragraphs = <<>>
    /\ sentence_offsets = <<>>
    /\ offsets = <<>>
    /\ curr_offset = 0
    /\ par_i = 0
    /\ cursor_at = <<>>
    /\ DiffIdle
    /\ DocIdle

\* get_sentence_offsets lines 95, 98: paragraphs = self.content1.split("\n")
paragraphs == Split(content, NL)

\* aligned_text.py lines 75 and 121-142: read_paragraphs ends in
\* sentence_tokenize(content); lines 101-102 set up get_sentence_offsets.
SentenceTokenize ==
    /\ opc = "start"
    /\ doc_paragraphs' = TokenizedParagraphs(Split(content, NL))
    /\ sentence_offsets' = TokenizedOffsets(Split(content, NL))
    /\ offsets' = <<>>
    /\ curr_offset' = 0
    /\ par_i' = 0
    /\ opc' = "offsets"
    /\ UNCHANGED <<content, cursor_at>>
    /\ UNCHANGED <<diffVars, docVars>>

OffsetsInLoop == opc = "offsets" /\ par_i < Len(paragraphs)

\* Lines 112-115: the trailing spaces counted into the cursor.
TrailingSpaces(paragraph) ==
    IF paragraph # <<>> /\ EndsWith(paragraph, <<SP>>)
    THEN Len(paragraph) - Len(Strip(paragraph))
    ELSE 0

\* A variant that leaves the spans paragraph-local.
ShiftedSpansLocal(offset_list, by) == offset_list

\* Lines 107-108.
ShiftedSpans(offset_list, by) ==
    [k \in 1..Len(offset_list) |-> <<offset_list[k][1] + by, offset_list[k][2] + by>>]

\* Lines 104-115: a paragraph that has sentence spans.
OffsetsOfSentences ==
    /\ OffsetsInLoop
    /\ par_i \in DOMAIN sentence_offsets
    /\ LET offset_list == sentence_offsets[par_i]
       IN /\ offsets' = offsets \o ShiftedSpans(offset_list, curr_offset)
          /\ curr_offset' = curr_offset + offset_list[Len(offset_list)][2] + 1
                            + TrailingSpaces(At(paragraphs, par_i))
    /\ cursor_at' = Append(cursor_at, curr_offset)
    /\ par_i' = par_i + 1
    /\ UNCHANGED <<opc, content, doc_paragraphs, sentence_offsets>>
    /\ UNCHANGED <<diffVars, docVars>>

\* A variant that advances the cursor past a paragraph without sentence spans
\* but gives it no entry in the table.
OffsetsOfEmptyNoEntry ==
    /\ OffsetsInLoop
    /\ par_i \notin DOMAIN sentence_offsets
    /\ curr_offset' = curr_offset + 1
    /\ cursor_at' = Append(cursor_at, curr_offset)
    /\ par_i' = par_i + 1
    /\ UNCHANGED <<opc, content, doc_paragraphs, sentence_offsets, offsets>>
    /\ UNCHANGED <<diffVars, docVars>>

\* Lines 116-118: a paragraph without sentence spans.
OffsetsOfEmpty ==
    /\ OffsetsInLoop
    /\ par_i \notin DOMAIN sentence_offsets
    /\ offsets' = Append(offsets, SENTINEL)
    /\ curr_offset' = curr_offset + 1
    /\ cursor_at' = Append(cursor_at, curr_offset)
    /\ par_i' = par_i + 1
    /\ UNCHANGED <<opc, content, doc_paragraphs, sentence_offsets>>
    /\ UNCHANGED <<diffVars, docVars>>

\* Line 119.
OffsetsReturn ==
    /\ opc = "offsets"
    /\ ~(par_i < Len(paragraphs))
    /\ opc' = "done"
    /\ UNCHANGED <<content, doc_paragraphs, sentence_offsets, offsets, curr_offset,
                   par_i, cursor_at>>
    /\ UNCHANGED <<diffVars, docVars>>

NextOffsets ==
    \/ SentenceTokenize
    \/ OffsetsOfSentences
    \/ OffsetsOfEmpty
    \/ OffsetsReturn

SpecOffsets == InitOffsets /\ [][NextOffsets]_vars


(***************************************************************************)
(* Claims about the sentence offset table.                                 *)
(***************************************************************************)
OffsetsDone == opc = "done"

\* edits_html.py lines 24-25: the flattened sentence list.
FlatSentences == Concat(doc_paragraphs)

ParIndices == 0..(Len(doc_paragraphs) - 1)

\* The paragraphs that sentence_tokenize gave no spans.
BlankPars == { p \in ParIndices : p \notin DOMAIN sentence_offsets }

SentinelEntries == { k \in 1..Len(offsets) : offsets[k] = SENTINEL }

\* The global index of sentence j of paragraph p.
GlobalIndex(p, j) == get_sent_indices(p, doc_paragraphs, <<j>>)[1]

\* C11: the finished table has one entry per sentence of every paragraph with
\* spans and one sentinel per paragraph without, so it is as long as the
\* flattened sentence list, and the global index get_sent_indices gives for
\* any sentence of the document is a valid index into the table, pointing at
\* a sentinel exactly when the paragraph has no spans.
C11_TableLength ==
    OffsetsDone =>
        /\ Len(offsets) = Len(FlatSentences)
        /\ Cardinality(SentinelEntries) = Cardinality(BlankPars)
        /\ \A p \in ParIndices :
              \A j \in 0..(Len(At(doc_paragraphs, p)) - 1) :
                  /\ GlobalIndex(p, j) \in 0..(Len(offsets) - 1)
                  /\ (At(offsets, GlobalIndex(p, j)) = SENTINEL) <=> (p \in BlankPars)

\* A finished table of a document with a blank paragraph between a paragraph
\* of two sentences and another paragraph.
C11_Witness ==
    /\ OffsetsDone
    /\ Len(doc_paragraphs) = 3
    /\ Len(doc_paragraphs[1]) = 2
    /\ BlankPars = {1}
    /\ Len(offsets) = 4

NonSentinel == { k \in 1..Len(offsets) : offsets[k] # SENTINEL }

\* The local spans of every paragraph are non-empty and increasing.
LocalSpansIncreasing ==
    \A p \in DOMAIN sentence_offsets :
        /\ \A k \in 1..Len(sentence_offsets[p]) :
              sentence_offsets[p][k][2] > sentence_offsets[p][k][1]
        /\ \A k \in 1..(Len(sentence_offsets[p]) - 1) :
              sentence_offsets[p][k + 1][1] >= sentence_offsets[p][k][2]

\* C12: when the paragraph-local spans are non-empty and increasing, the
\* non-sentinel entries of the table are non-decreasing in begin in document
\* order and each ends after it begins, at every point of the construction.
C12_Monotonic ==
    (opc \in {"offsets", "done"} /\ LocalSpansIncreasing) =>
        /\ \A k \in NonSentinel : offsets[k][2] > offsets[k][1]
        /\ \A k, m \in NonSentinel : k < m => offsets[k][1] <= offsets[m][1]

\* A finished table whose non-sentinel entries come from two paragraphs
\* separated by a blank one, the first with two sentences.
C12_Witness ==
    /\ OffsetsDone
    /\ LocalSpansIncreasing
    /\ Cardinality(NonSentinel) = 3
    /\ Cardinality(SentinelEntries) = 1
    /\ Len(sentence_offsets[0]) = 2

\* The offset in the content at which paragraph p starts.
RECURSIVE ParStart(_)
ParStart(p) == IF p = 0 THEN 0 ELSE ParStart(p - 1) + Len(At(paragraphs, p - 1)) + 1

\* C19: the cursor starts at 0 and at the start of every paragraph equals the
\* paragraph's start offset in the content, and every non-sentinel entry
\* (b, e) of the finished table delimits its sentence's text in the content.
C19_Cursor ==
    OffsetsDone =>
        /\ \A p \in ParIndices : At(cursor_at, p) = ParStart(p)
        /\ \A k \in NonSentinel :
              Slice(content, offsets[k][1], offsets[k][2]) = FlatSentences[k]

(***************************************************************************)
(* The document level: EditsHtml.get_diff_html over two documents and the  *)
(* alignment the external aligner returned, then create_html_file.         *)
(*                                                                         *)
(* The aligner is outside the repository; its result is an input.  The     *)
(* alignments considered are the one-to-one ones: every element of         *)
(* par_alignment is ([p1], [p2]) and every element of sent_alignments[i]   *)
(* is ([s1], [s2]) with s1, s2 sentences of p1, p2, in increasing order    *)
(* and leaving any paragraphs and sentences unmatched.                     *)
(***************************************************************************)
MaxDocPars == 2

DocPars == { <<"a", DOT>>, <<"b", DOT>>, <<"a", DOT, SP, "b", DOT>>, <<SP>> }

DocContents ==
    { read_content(Join(ps, <<NL>>)) : ps \in UNION { [1..n -> DocPars] : n \in 1..MaxDocPars } }

RECURSIVE OffsetsLoop(_, _, _, _, _)
\* aligned_text.py lines 103-119: the loop of get_sentence_offsets.
OffsetsLoop(pars, local_offsets, k, table, cursor) ==
    IF ~(k < Len(pars)) THEN table
    ELSE IF k \in DOMAIN local_offsets
    THEN OffsetsLoop(pars, local_offsets, k + 1,
                     table \o ShiftedSpans(local_offsets[k], cursor),
                     cursor + local_offsets[k][Len(local_offsets[k])][2] + 1
                     + TrailingSpaces(At(pars, k)))
    ELSE OffsetsLoop(pars, local_offsets, k + 1, Append(table, SENTINEL), cursor + 1)

\* aligned_text.py lines 88-119.
get_sentence_offsets(pars, local_offsets) == OffsetsLoop(pars, local_offsets, 0, <<>>, 0)

\* aligned_text.py lines 75-79 and edits_html.py lines 17-28: the content,
\* the paragraphs of sentences and the global offset table of one document.
ReadDocument(c) ==
    [content |-> c,
     ps |-> TokenizedParagraphs(Split(c, NL)),
     global_offsets |-> get_sentence_offsets(Split(c, NL), TokenizedOffsets(Split(c, NL)))]

\* The increasing one-to-one matchings of 0..n1-1 with 0..n2-1, as
\* sequences of pairs.
Matchings(n1, n2) ==
    { m \in UNION { [1..k -> (0..(n1 - 1)) \X (0..(n2 - 1))] : k \in 0..Min(n1, n2) } :
        \A a, b \in DOMAIN m : a < b => (m[a][1] < m[b][1] /\ m[a][2] < m[b][2]) }

\* aligned_text.py lines 175-177 and 198-206: the lists the aligner returns
\* for a matching.
AsLists(m) == [k \in DOMAIN m |-> << <<m[k][1]>>, <<m[k][2]>> >>]

\* The sentence alignments possible for element k of a paragraph alignment.
SentLists(par_alignment, p1s, p2s, k) ==
    { AsLists(m) : m \in Matchings(Len(At(p1s, par_alignment[k][1][1])),
                                   Len(At(p2s, par_alignment[k][2][1]))) }

\* The sentence alignments possible for a paragraph alignment.
SentAlignmentsOf(par_alignment, p1s, p2s) ==
    { sa \in [DOMAIN par_alignment ->
                 UNION { SentLists(par_alignment, p1s, p2s, k) : k \in DOMAIN par_alignment }] :
        \A k \in DOMAIN par_alignment : sa[k] \in SentLists(par_alignment, p1s, p2s, k) }

\* edits_html.py lines 33-38: dummy_dict.
dummy_dict == [text |-> <<>>, offset |-> SENTINEL]

\* A Python dict with integer keys: the function from its keys.
Put(d, key, value) == [k \in DOMAIN d \cup {key} |-> IF k = key THEN value ELSE d[k]]

\* edits_html.py lines 197-198.
checkConsecutive(l) ==
    LET elems == { l[k] : k \in DOMAIN l }
        lo == CHOOSE x \in elems : \A y \in elems : x <= y
        hi == CHOOSE x \in elems : \A y \in elems : x >= y
    IN elems = lo..hi /\ Cardinality(elems) = Len(l)

\* Line 226: list(range(min(sentence_list), max(sentence_list) + 1))
FullRange(l) ==
    LET elems == { l[k] : k \in DOMAIN l }
        lo == CHOOSE x \in elems : \A y \in elems : x <= y
        hi == CHOOSE x \in elems : \A y \in elems : x >= y
    IN [k \in 1..(hi - lo + 1) |-> lo + k - 1]

\* Lines 241-250: the dict of one sentence of the list.
SentenceDict(par_index, sent_index, global_offsets, c) ==
    [text |-> Slice(c, At(global_offsets, sent_index)[1], At(global_offsets, sent_index)[2]),
     paragraph_index |-> par_index,
     sentence_index |-> sent_index,
     offset |-> At(global_offsets, sent_index)]

\* Lines 231-258, for a sentence list that is not empty.  The sentences of
\* the list lie in the paragraph, so line 236 raises no IndexError.
FoundSentence(par_index, sentence_list, sent_indices, global_offsets, c) ==
    [none |-> FALSE,
     sentence |-> Join([k \in DOMAIN sentence_list |->
                           SentenceDict(par_index, sent_indices[k], global_offsets, c).text],
                       <<SP>>),
     sentence_list |-> sentence_list,
     par_indices |-> {par_index},
     sent_indices |-> sent_indices,
     sentence_dicts |-> [k \in DOMAIN sentence_list |->
                            SentenceDict(par_index, sent_indices[k], global_offsets, c)]]

\* Line 222: return (None,) * 5
NoSentence ==
    [none |-> TRUE, sentence |-> <<>>, sentence_list |-> <<>>, par_indices |-> {},
     sent_indices |-> <<>>, sentence_dicts |-> <<>>]

\* Line 229.
RangedSentence(par_index, sentence_list, pars, global_offsets, c) ==
    FoundSentence(par_index, sentence_list,
                  get_sent_indices(par_index, pars, sentence_list), global_offsets, c)

\* Lines 221-226.
FilteredSentence(par_index, sentence_list, pars, global_offsets, c) ==
    IF sentence_list = <<>> THEN NoSentence
    ELSE IF checkConsecutive(sentence_list)
    THEN RangedSentence(par_index, sentence_list, pars, global_offsets, c)
    ELSE RangedSentence(par_index, FullRange(sentence_list), pars, global_offsets, c)

\* Lines 200-258.
get_sentence(par_index, sentence_list, pars, paragraph_html, global_offsets, c) ==
    FilteredSentence(par_index,
                     SelectSeq(sentence_list, LAMBDA j : j \notin DOMAIN paragraph_html),
                     pars, global_offsets, c)

RECURSIVE StoreDicts(_, _)
\* Line 252: self.edits_json_dict[edits_json_key][sent_index] = sentence_dict
StoreDicts(file_sentences, sentence_dicts) ==
    IF sentence_dicts = <<>> THEN file_sentences
    ELSE StoreDicts(SetAt(file_sentences, Head(sentence_dicts).sentence_index,
                          Head(sentence_dicts)),
                    Tail(sentence_dicts))

\* Lines 67-68: the hover markup around the html of an aligned sentence (of
\* that html, the sentence it renders is kept).
format_hover(text, index) == [markup |-> "hover", text |-> text]

\* Lines 480-496: diff_wordMode on the two sentences, then handle_diff with
\* the token offsets shifted to the sentences' places in the documents.
DocEntered(w, r, so1, so2) ==
    [w EXCEPT !.pc = "loop", !.lineArray = r.lineArray, !.diff = r.diff,
              !.char_diff = r.char_diff,
              !.offsets1 = get_token_offsets(r.offsets1, so1),
              !.offsets2 = get_token_offsets(r.offsets2, so2)]

\* Lines 480-496: the edit_dicts of one aligned sentence pair.
PairEdits(s1, s2, c1, c2, so1, so2) ==
    RunAll(DocEntered(WorkerStart(c1, c2), diff_wordMode(s1, s2), so1, so2)).edit_dicts

RECURSIVE PutAll(_, _, _)
\* Lines 507-512.
PutAll(d, keys, value) ==
    IF keys = <<>> THEN d ELSE PutAll(Put(d, Head(keys), value), Tail(keys), value)

RECURSIVE Placeholders(_, _)
\* Lines 502-505.
Placeholders(paragraph_html, list) ==
    IF list = <<>> THEN paragraph_html
    ELSE Placeholders(Put(paragraph_html, Head(list), <<>>), Tail(list))

\* A variant that stores no edit records for an aligned sentence pair.
SentDiffedNoEdits(st, g1, g2, edits) ==
    [st EXCEPT
        !.par1_html = Placeholders(Put(@, Head(g1.sentence_list),
                                       format_hover(g1.sentence, st.k)),
                                   Tail(g1.sentence_list)),
        !.par2_html = Placeholders(Put(@, Head(g2.sentence_list),
                                       format_hover(g2.sentence, st.k)),
                                   Tail(g2.sentence_list)),
        !.alignments = PutAll(@, g1.sent_indices, [match |-> g2.sent_indices, edits |-> <<>>]),
        !.num_edits = @ + EditCount(edits),
        !.k = @ + 1]

\* Lines 489-512: handle_diff has returned edit_dicts for the pair.
SentDiffed(st, g1, g2, edits) ==
    [st EXCEPT
        !.par1_html = Placeholders(Put(@, Head(g1.sentence_list),
                                       format_hover(g1.sentence, st.k)),
                                   Tail(g1.sentence_list)),
        !.par2_html = Placeholders(Put(@, Head(g2.sentence_list),
                                       format_hover(g2.sentence, st.k)),
                                   Tail(g2.sentence_list)),
        !.alignments = PutAll(@, g1.sent_indices, [match |-> g2.sent_indices, edits |-> edits]),
        !.num_edits = @ + EditCount(edits),
        !.k = @ + 1]

\* Lines 451-478: both get_sentence calls have returned.
SentGot(st, g1, g2, D) ==
    IF g1.none \/ g2.none
    THEN [st EXCEPT !.k = @ + 1]
    ELSE SentDiffed(st, g1, g2,
                    PairEdits(g1.sentence, g2.sentence, D.content1, D.content2,
                              Head(g1.sentence_dicts).offset[1],
                              Head(g2.sentence_dicts).offset[1]))

\* Lines 451-475: what the two get_sentence calls leave behind.
SentFound(st, g1, g2, D) ==
    SentGot([st EXCEPT !.found1 = [none |-> g1.none, indices |-> g1.par_indices],
                       !.found2 = [none |-> g2.none, indices |-> g2.par_indices],
                       !.file1_sentences = StoreDicts(@, g1.sentence_dicts),
                       !.file2_sentences = StoreDicts(@, g2.sentence_dicts)],
            g1, g2, D)

RECURSIVE SentLoop(_, _, _, _, _)
\* Lines 445-512: the loop over sent_alignments[i].
SentLoop(st, els, p1, p2, D) ==
    IF ~(st.k < Len(els)) THEN st
    ELSE IF At(els, st.k) = <<>> THEN SentLoop([st EXCEPT !.k = @ + 1], els, p1, p2, D)
    ELSE SentLoop(SentFound(st,
                            get_sentence(p1, At(els, st.k)[1], D.p1s, st.par1_html,
                                         D.global_offsets1, D.content1),
                            get_sentence(p2, At(els, st.k)[2], D.p2s, st.par2_html,
                                         D.global_offsets2, D.content2),
                            D),
                  els, p1, p2, D)

\* Lines 283-296: the alignments entry of an unaligned sentence.
UnalignedEntry(d, edit_type, sent_index) ==
    IF edit_type = "deletion"
    THEN Put(d, sent_index, [match |-> <<>>, edits |-> <<>>])
    ELSE IF (0 - 1) \in DOMAIN d
         THEN Put(d, 0 - 1, [d[0 - 1] EXCEPT !.match = Append(@, sent_index)])
         ELSE Put(d, 0 - 1, [match |-> <<sent_index>>, edits |-> <<>>])

RECURSIVE UnalignedLoop(_, _, _, _, _, _, _)
\* Lines 277-303: the loop of add_unaligned_sentences; u holds paragraph_html,
\* alignments, file_sentences and num_edits.
UnalignedLoop(u, edit_type, paragraph, par_index, sent_indices, global_offsets, k) ==
    IF ~(k < Len(paragraph)) THEN u
    ELSE IF k \in DOMAIN u.paragraph_html
    THEN UnalignedLoop(u, edit_type, paragraph, par_index, sent_indices, global_offsets, k + 1)
    ELSE UnalignedLoop(
            [paragraph_html |-> Put(u.paragraph_html, k, format_edit(At(paragraph, k), edit_type)),
             num_edits |-> u.num_edits + 1,
             alignments |-> UnalignedEntry(u.alignments, edit_type, At(sent_indices, k)),
             file_sentences |->
                 SetAt(u.file_sentences, At(sent_indices, k),
                       [text |-> At(paragraph, k),
                        paragraph_index |-> par_index,
                        sentence_index |-> At(sent_indices, k),
                        offset |-> At(global_offsets, At(sent_indices, k))])],
            edit_type, paragraph, par_index, sent_indices, global_offsets, k + 1)

\* range(n) as a list.
RangeList(n) == [k \in 1..n |-> k - 1]

\* Lines 260-304.
add_unaligned_sentences(u, edit_type, pars, par_index, global_offsets) ==
    UnalignedLoop(u, edit_type, At(pars, par_index), par_index,
                  get_sent_indices(par_index, pars, RangeList(Len(At(pars, par_index)))),
                  global_offsets, 0)

\* Lines 514-532, one side: add_unaligned_sentences is called when the last
\* get_sentence call of the side found the paragraph.
UnalignedSide(found, u, edit_type, pars, par_index, global_offsets) ==
    IF ~found.none /\ par_index \in found.indices
    THEN add_unaligned_sentences(u, edit_type, pars, par_index, global_offsets)
    ELSE u

\* The values of a paragraph dict in the order of its keys.
RECURSIVE SortedValues(_, _)
SortedValues(d, keys) ==
    IF keys = {} THEN <<>>
    ELSE LET lo == CHOOSE x \in keys : \A y \in keys : x <= y
         IN <<d[lo]>> \o SortedValues(d, keys \ {lo})

\* Lines 381-388: full_html is a list of strings, so the integer html_index
\* is never "in" it and the paragraph is always stored.
add_aligned_paragraph(paragraph_dict, found, full_html) ==
    IF found.none THEN full_html
    ELSE SetAt(full_html,
               CHOOSE x \in found.indices : \A y \in found.indices : x <= y,
               SortedValues(paragraph_dict, DOMAIN paragraph_dict))

\* Lines 328-374: the entries add_unaligned_paragraphs writes for one
\* sentence: the alignments key is the sentence's global index for a
\* deletion and -1 for every insertion.
ParagraphSentence(u, edit_type, sentence_text, paragraph_index, global_sent_index, offset_list) ==
    [u EXCEPT
        !.file_sentences =
            SetAt(@, global_sent_index,
                  [text |-> sentence_text,
                   paragraph_index |-> paragraph_index,
                   sentence_index |-> global_sent_index,
                   offset |-> At(offset_list, global_sent_index)]),
        !.alignments =
            Put(@, IF edit_type = "deletion" THEN global_sent_index ELSE 0 - 1,
                [match |-> IF edit_type = "deletion" THEN <<0 - 1>> ELSE <<global_sent_index>>,
                 edits |-> <<[edit_type |-> edit_type,
                              offset1 |-> IF edit_type = "insertion" THEN SENTINEL
                                          ELSE At(offset_list, global_sent_index),
                              offset2 |-> IF edit_type = "deletion" THEN SENTINEL
                                          ELSE At(offset_list, global_sent_index),
                              text1 |-> IF edit_type = "insertion" THEN <<>> ELSE sentence_text,
                              text2 |-> IF edit_type = "deletion" THEN <<>> ELSE sentence_text]>>])]

RECURSIVE UnalignedParagraphSentences(_, _, _, _, _, _, _)
\* Lines 327-374: the loop over the sentences of an unaligned paragraph.
UnalignedParagraphSentences(u, edit_type, paragraph, paragraph_index, global_sent_indices, offset_list, k) ==
    IF ~(k < Len(paragraph)) THEN u
    ELSE UnalignedParagraphSentences(
            ParagraphSentence(u, edit_type, At(paragraph, k), paragraph_index,
                              At(global_sent_indices, k), offset_list),
            edit_type, paragraph, paragraph_index, global_sent_indices, offset_list, k + 1)

\* Lines 376-379.
ParagraphMarked(u, edit_type, paragraph, paragraph_index) ==
    [u EXCEPT !.text_html = SetAt(@, paragraph_index,
                                  <<format_edit(Join(paragraph, <<SP>>), edit_type)>>),
              !.num_edits = @ + 1]

RECURSIVE add_unaligned_paragraphs(_, _, _, _, _, _)
\* Lines 306-379; u holds text_html, alignments, file_sentences and
\* num_edits, offset_list is sentence_offsets1 or sentence_offsets2.
add_unaligned_paragraphs(u, edit_type, seen_pars, pars, offset_list, paragraph_index) ==
    IF ~(paragraph_index < Len(pars)) THEN u
    ELSE IF paragraph_index \notin seen_pars /\ At(u.text_html, paragraph_index) = <<>>
    THEN add_unaligned_paragraphs(
            ParagraphMarked(
                UnalignedParagraphSentences(u, edit_type, At(pars, paragraph_index), paragraph_index,
                                   get_sent_indices(paragraph_index, pars,
                                                    RangeList(Len(At(pars, paragraph_index)))),
                                   offset_list, 0),
                edit_type, At(pars, paragraph_index), paragraph_index),
            edit_type, seen_pars, pars, offset_list, paragraph_index + 1)
    ELSE add_unaligned_paragraphs(u, edit_type, seen_pars, pars, offset_list,
                                  paragraph_index + 1)

\* The AlignedText object of two documents and an alignment of them.
AlignedTextOf(d1, d2, pa, sa) ==
    [content1 |-> d1.content, content2 |-> d2.content,
     p1s |-> d1.ps, p2s |-> d2.ps,
     global_offsets1 |-> d1.global_offsets, global_offsets2 |-> d2.global_offsets,
     par_alignment |-> pa, sent_alignments |-> sa]

AlignmentsOf(d1, d2) ==
    UNION { { AlignedTextOf(d1, d2, AsLists(m), sa) :
                  sa \in SentAlignmentsOf(AsLists(m), d1.ps, d2.ps) } :
            m \in Matchings(Len(d1.ps), Len(d2.ps)) }

AlignedTexts ==
    UNION { AlignmentsOf(ReadDocument(c[1]), ReadDocument(c[2])) :
            c \in DocContents \X DocContents }

InitDoc ==
    /\ dpc = "start"
    /\ doc \in AlignedTexts
    /\ par_k = 0
    /\ alignments = <<>>
    /\ file1_sentences = <<>> /\ file2_sentences = <<>>
    /\ text_html1 = <<>> /\ text_html2 = <<>>
    /\ seen_p1s = {} /\ seen_p2s = {}
    /\ files = {}
    /\ DiffIdle
    /\ OffsetsIdle

\* The variables the document level leaves alone.
docFrame == <<pc, text1, text2, diff, char_diff, codecVars, i, num_tokens_list,
              token_offsets1, token_offsets2, html1, html2, edit_dicts, run_of, lists_of,
              worker, offsetVars>>

\* get_single_output.py line 44 and edits_html.py lines 16-38 and 421-422:
\* the EditsHtml object is set up and get_diff_html entered.
EditsHtmlInit ==
    /\ dpc = "start"
    /\ num_edits' = 0
    /\ alignments' = <<>>
    /\ file1_sentences' = [k \in 1..Len(Concat(doc.p1s)) |-> dummy_dict]
    /\ file2_sentences' = [k \in 1..Len(Concat(doc.p2s)) |-> dummy_dict]
    /\ text_html1' = [k \in 1..Len(doc.p1s) |-> <<>>]
    /\ text_html2' = [k \in 1..Len(doc.p2s) |-> <<>>]
    /\ seen_p1s' = {} /\ seen_p2s' = {}
    /\ par_k' = 0
    /\ dpc' = "pars"
    /\ UNCHANGED <<doc, files>>
    /\ UNCHANGED docFrame

\* Lines 436-440: the locals of one pair of aligned paragraphs.
SentStart ==
    [k |-> 0, par1_html |-> <<>>, par2_html |-> <<>>,
     found1 |-> [none |-> TRUE, indices |-> {}],
     found2 |-> [none |-> TRUE, indices |-> {}],
     alignments |-> alignments, num_edits |-> num_edits,
     file1_sentences |-> file1_sentences, file2_sentences |-> file2_sentences]

\* Lines 514-535: st is the state after the sentence loop, u1 and u2 what
\* add_unaligned_sentences leaves of the first and then of the second side.
ParagraphsClosed(st, u1, u2, p1, p2) ==
    /\ alignments' = u2.alignments
    /\ num_edits' = u2.num_edits
    /\ file1_sentences' = u1.file_sentences
    /\ file2_sentences' = u2.file_sentences
    /\ text_html1' = add_aligned_paragraph(u1.paragraph_html, st.found1, text_html1)
    /\ text_html2' = add_aligned_paragraph(u2.paragraph_html, st.found2, text_html2)

\* Lines 523-532: the second side starts from the alignments and num_edits
\* the first side left.
SecondSide(st, u1, p1, p2) ==
    ParagraphsClosed(st, u1,
                     UnalignedSide(st.found2,
                                   [paragraph_html |-> st.par2_html,
                                    num_edits |-> u1.num_edits,
                                    alignments |-> u1.alignments,
                                    file_sentences |-> st.file2_sentences],
                                   "insertion", doc.p2s, p2, doc.global_offsets2),
                     p1, p2)

\* Lines 514-521.
FirstSide(st, p1, p2) ==
    SecondSide(st,
               UnalignedSide(st.found1,
                             [paragraph_html |-> st.par1_html,
                              num_edits |-> st.num_edits,
                              alignments |-> st.alignments,
                              file_sentences |-> st.file1_sentences],
                             "deletion", doc.p1s, p1, doc.global_offsets1),
               p1, p2)

\* Lines 425-535: one element ([p1], [p2]) of par_alignment; zip_longest
\* gives the one pair (p1, p2).
AlignedParagraphs ==
    /\ dpc = "pars"
    /\ par_k < Len(doc.par_alignment)
    /\ LET p1 == At(doc.par_alignment, par_k)[1][1]
           p2 == At(doc.par_alignment, par_k)[2][1]
       IN /\ seen_p1s' = seen_p1s \cup {p1}
          /\ seen_p2s' = seen_p2s \cup {p2}
          /\ FirstSide(SentLoop(SentStart, At(doc.sent_alignments, par_k), p1, p2, doc), p1, p2)
    /\ par_k' = par_k + 1
    /\ UNCHANGED <<dpc, doc, files>>
    /\ UNCHANGED docFrame

\* Line 538, on what line 537 left.
InsertedParagraphs(u1, u2) ==
    /\ text_html1' = u1.text_html
    /\ file1_sentences' = u1.file_sentences
    /\ text_html2' = u2.text_html
    /\ file2_sentences' = u2.file_sentences
    /\ alignments' = u2.alignments
    /\ num_edits' = u2.num_edits

\* Line 537, then line 538.
DeletedParagraphs(u1) ==
    InsertedParagraphs(u1,
        add_unaligned_paragraphs([text_html |-> text_html2, alignments |-> u1.alignments,
                                  file_sentences |-> file2_sentences,
                                  num_edits |-> u1.num_edits],
                                 "insertion", seen_p2s, doc.p2s, doc.global_offsets2, 0))

\* Lines 537-538 and the return of get_diff_html and of EditsHtml(...).
UnalignedParagraphs ==
    /\ dpc = "pars"
    /\ ~(par_k < Len(doc.par_alignment))
    /\ DeletedParagraphs(
          add_unaligned_paragraphs([text_html |-> text_html1, alignments |-> alignments,
                                    file_sentences |-> file1_sentences,
                                    num_edits |-> num_edits],
                                   "deletion", seen_p1s, doc.p1s, doc.global_offsets1, 0))
    /\ dpc' = "built"
    /\ UNCHANGED <<doc, par_k, seen_p1s, seen_p2s, files>>
    /\ UNCHANGED docFrame

\* get_single_output.py lines 45-46.
ReturnNone ==
    /\ dpc = "built"
    /\ num_edits = 0
    /\ dpc' = "none"
    /\ UNCHANGED <<doc, par_k, alignments, file1_sentences, file2_sentences, text_html1,
                   text_html2, seen_p1s, seen_p2s, files, num_edits>>
    /\ UNCHANGED docFrame

\* A variant that writes the files whatever num_edits is.
WriteFilesAlways ==
    /\ dpc = "built"
    /\ \E in_app \in BOOLEAN :
          files' = IF in_app THEN {"html"} ELSE {"html", "json"}
    /\ dpc' = "written"
    /\ UNCHANGED <<doc, par_k, alignments, file1_sentences, file2_sentences, text_html1,
                   text_html2, seen_p1s, seen_p2s, num_edits>>
    /\ UNCHANGED docFrame

\* get_single_output.py lines 57-82: the html file is written, and the json
\* file unless in_app.
WriteFiles ==
    /\ dpc = "built"
    /\ num_edits # 0
    /\ \E in_app \in BOOLEAN :
          files' = IF in_app THEN {"html"} ELSE {"html", "json"}
    /\ dpc' = "written"
    /\ UNCHANGED <<doc, par_k, alignments, file1_sentences, file2_sentences, text_html1,
                   text_html2, seen_p1s, seen_p2s, num_edits>>
    /\ UNCHANGED docFrame

NextDoc ==
    \/ EditsHtmlInit
    \/ AlignedParagraphs
    \/ UnalignedParagraphs
    \/ ReturnNone
    \/ WriteFiles

SpecDoc == InitDoc /\ [][NextDoc]_vars


(***************************************************************************)
(* Claims about the output document and the files written.                 *)
(***************************************************************************)
\* get_diff_html has returned.
DocBuilt == dpc \in {"built", "none", "written"}

\* create_html_file has returned.
DocReturned == dpc \in {"none", "written"}

IdentityLists(n) == [k \in 1..n |-> << <<k - 1>>, <<k - 1>> >>]

\* Every paragraph is aligned with the paragraph of the same index and every
\* sentence with the sentence of the same index.
AlignedOneToOne ==
    /\ Len(doc.p1s) = Len(doc.p2s)
    /\ doc.par_alignment = IdentityLists(Len(doc.p1s))
    /\ \A k \in DOMAIN doc.sent_alignments :
          /\ Len(doc.p1s[k]) = Len(doc.p2s[k])
          /\ doc.sent_alignments[k] = IdentityLists(Len(doc.p1s[k]))

IdenticalDocuments == doc.content1 = doc.content2 /\ AlignedOneToOne

EditTypes(key) == { alignments[key].edits[k].edit_type : k \in DOMAIN alignments[key].edits }

\* C13, as the code has it: for two identical documents aligned one-to-one,
\* the output document has an alignments entry for every sentence, the edits
\* of every entry are one record of type same, and num_edits is 0.
C13_IdenticalSame ==
    (DocBuilt /\ IdenticalDocuments) =>
        /\ DOMAIN alignments = 0..(Len(Concat(doc.p1s)) - 1)
        /\ \A key \in DOMAIN alignments :
              /\ Len(alignments[key].edits) = 1
              /\ EditTypes(key) = {"same"}
        /\ num_edits = 0

\* Two identical documents of two paragraphs, one of them of two sentences,
\* after get_diff_html.
C13_Witness ==
    /\ DocBuilt
    /\ IdenticalDocuments
    /\ Len(doc.p1s) = 2
    /\ Len(Concat(doc.p1s)) = 3
    /\ DOMAIN alignments = {0, 1, 2}

\* C13 as stated: for two identical documents aligned one-to-one, every
\* entry of alignments has a zero-length edits sequence.
C13_IdenticalNoEdits ==
    (DocBuilt /\ IdenticalDocuments) =>
        \A key \in DOMAIN alignments : Len(alignments[key].edits) = 0

AlignedPars1 == { doc.par_alignment[k][1][1] : k \in DOMAIN doc.par_alignment }
AlignedPars2 == { doc.par_alignment[k][2][1] : k \in DOMAIN doc.par_alignment }

\* No paragraph and no sentence of either document is left unaligned.
NothingUnaligned ==
    /\ AlignedPars1 = 0..(Len(doc.p1s) - 1)
    /\ AlignedPars2 = 0..(Len(doc.p2s) - 1)
    /\ \A k \in DOMAIN doc.par_alignment :
          /\ { doc.sent_alignments[k][j][1][1] : j \in DOMAIN doc.sent_alignments[k] }
                = 0..(Len(At(doc.p1s, doc.par_alignment[k][1][1])) - 1)
          /\ { doc.sent_alignments[k][j][2][1] : j \in DOMAIN doc.sent_alignments[k] }
                = 0..(Len(At(doc.p2s, doc.par_alignment[k][2][1])) - 1)

EveryRecordSame == \A key \in DOMAIN alignments : EditTypes(key) \subseteq {"same"}

\* C14: create_html_file writes its files only if num_edits > 0; when every
\* emitted edit record is same and nothing is left unaligned, num_edits is 0,
\* create_html_file returns None and no file is written.
C14_EmptyOutput ==
    /\ (files # {}) => num_edits > 0
    /\ (dpc = "written") => (num_edits > 0 /\ "html" \in files)
    /\ (DocBuilt /\ EveryRecordSame /\ NothingUnaligned) => num_edits = 0
    /\ (DocReturned /\ EveryRecordSame /\ NothingUnaligned) => (dpc = "none" /\ files = {})

\* create_html_file has returned None for two documents of two paragraphs
\* whose records are all same.
C14_Witness ==
    /\ dpc = "none"
    /\ EveryRecordSame
    /\ NothingUnaligned
    /\ Len(doc.p1s) = 2
    /\ files = {}

\* The records of alignments that are of the type and about the sentence of
\* global index g: the entry's key (deletion) or match (insertion) names g.
RecordsAbout(edit_type, g) ==
    { <<key, k>> \in UNION { {key} \X DOMAIN alignments[key].edits : key \in DOMAIN alignments } :
        /\ alignments[key].edits[k].edit_type = edit_type
        /\ IF edit_type = "deletion"
           THEN key = g
           ELSE \E m \in DOMAIN alignments[key].match : alignments[key].match[m] = g }

UnmatchedSentences(pars, aligned) ==
    UNION { { get_sent_indices(p, pars, <<j>>)[1] : j \in 0..(Len(At(pars, p)) - 1) } :
            p \in (0..(Len(pars) - 1)) \ aligned }

\* C15 (alignment gap): after get_diff_html, alignments holds a deletion
\* record for every sentence of every unmatched source paragraph and an
\* insertion record for every sentence of every unmatched target paragraph.
C15_AlignmentGap ==
    DocBuilt =>
        /\ \A g \in UnmatchedSentences(doc.p1s, AlignedPars1) : RecordsAbout("deletion", g) # {}
        /\ \A g \in UnmatchedSentences(doc.p2s, AlignedPars2) : RecordsAbout("insertion", g) # {}


RECURSIVE LineTokenOffsets(_, _)
\* The (start, end) of every token of the lines, in token order, counted from
\* the start of the text the lines were split from.
LineTokenOffsets(lines, line_start) ==
    IF lines = <<>> THEN <<>>
    ELSE get_token_offsets(WordOffsets(nlp(Head(lines))), line_start)
         \o LineTokenOffsets(Tail(lines), line_start + Len(Head(lines)) + 1)

TextTokenOffsets(text) == LineTokenOffsets(Split(text, NL), 0)

\* C21 (per-token offsets): the offsets list diff_wordsToChars returns for a
\* side has one (start, end) entry per word token of that side's text, in
\* token order, each delimiting its token in the whole text.
C21_PerTokenOffsets ==
    /\ pc # "start" => offsets1 = TextTokenOffsets(text1)
    /\ pc \notin {"start", "munged1"} => offsets2 = TextTokenOffsets(text2)


(***************************************************************************)
(* The encoder at the end of the symbol space.  The caps of diff.py lines  *)
(* 105 and 107 (666666 and 1114111, the latter also the largest argument   *)
(* chr accepts) are out of reach of any text that can be enumerated; here  *)
(* diff_wordsToChars runs with two small caps in their place, the first    *)
(* below the second as in the code.                                        *)
(***************************************************************************)
CapLines1 == 2
CapLines2 == 4

\* diff.py lines 36-41 and 105-106 with maxLines = CapLines1.
CapMunge1 ==
    /\ pc = "start"
    /\ Munged1(diff_linesToCharsMunge(text1, << <<>> >>, <<>>, CapLines1))
    /\ pc' = "munged1"
    /\ UNCHANGED <<text1, text2, chars2, offsets2, diff, char_diff>>
    /\ UNCHANGED handleVars
    /\ UNCHANGED otherVars

\* diff.py lines 107-109 with maxLines = CapLines2.
CapMunge2 ==
    /\ pc = "munged1"
    /\ Munged2(diff_linesToCharsMunge(text2, lineArray, lineHash, CapLines2))
    /\ pc' = "munged2"
    /\ UNCHANGED <<text1, text2, chars1, offsets1, diff, char_diff>>
    /\ UNCHANGED handleVars
    /\ UNCHANGED otherVars

\* diff_wordMode under the small caps: the two encoding calls, diff_main
\* and the decoding of the runs.
NextCap ==
    \/ CapMunge1
    \/ CapMunge2
    \/ DiffMain
    \/ CharsToLines

SpecCap == Init /\ [][NextCap]_vars

\* The index of a chunk in a registry that holds it.
IndexIn(la, chunk) == CHOOSE k \in 1..(Len(la) - 1) : At(la, k) = chunk

RECURSIVE ChunkEncode(_, _, _, _)
\* What the claim asks of the encoder, chunk by chunk: a registered chunk
\* gives its symbol; a new chunk is registered and gives the next symbol,
\* unless the registry is at the cap: then the rest of the chunks is
\* registered as one chunk, gives one symbol, and the encoding stops.
ChunkEncode(chunks, la, cap, chars) ==
    IF chunks = <<>> THEN [chars |-> chars, lineArray |-> la, bailed |-> FALSE]
    ELSE IF \E k \in 1..(Len(la) - 1) : At(la, k) = Head(chunks)
    THEN ChunkEncode(Tail(chunks), la, cap, Append(chars, IndexIn(la, Head(chunks))))
    ELSE IF Len(la) = cap
    THEN [chars |-> Append(chars, Len(la)), lineArray |-> Append(la, Concat(chunks)),
          bailed |-> TRUE]
    ELSE ChunkEncode(Tail(chunks), Append(la, Head(chunks)), cap, Append(chars, Len(la)))

Expected1 == ChunkEncode(ChunksOf(Words(text1)), << <<>> >>, CapLines1, <<>>)
Expected2 == ChunkEncode(ChunksOf(Words(text2)), Expected1.lineArray, CapLines2, <<>>)

\* C22 (symbol space exhaustion): when a new chunk must be registered while
\* the registry is at the cap, the encoder registers the whole remainder of
\* the text as one chunk, emits one symbol for it and stops; otherwise it
\* encodes chunk by chunk.  No emitted symbol exceeds the second cap (the
\* largest value chr accepts, so nothing is raised), and the symbol strings
\* and the decoded runs still give back the joined texts.
C22_Exhaustion ==
    /\ pc # "start" =>
          /\ chars1 = Expected1.chars
          /\ Concat(Decoded(chars1)) = JoinedText(Words(text1))
          /\ \A k \in 1..Len(chars1) : chars1[k] \in 1..CapLines2
    /\ pc = "munged1" => lineArray = Expected1.lineArray
    /\ pc \notin {"start", "munged1"} =>
          /\ chars2 = Expected2.chars
          /\ lineArray = Expected2.lineArray
          /\ Concat(Decoded(chars2)) = JoinedText(Words(text2))
          /\ \A k \in 1..Len(chars2) : chars2[k] \in 1..CapLines2
    /\ pc = "returned" =>
          /\ RunsText(diff, {DIFF_EQUAL, DIFF_DELETE}) = JoinedText(Words(text1))
          /\ RunsText(diff, {DIFF_EQUAL, DIFF_INSERT}) = JoinedText(Words(text2))

\* Both encoding calls ran out of symbols, each with more than one chunk
\* left: the registry holds the two remainders at the two caps.
C22_Witness ==
    /\ pc = "returned"
    /\ Len(lineArray) = CapLines2 + 1
    /\ chars1[Len(chars1)] = CapLines1
    /\ chars2[Len(chars2)] = CapLines2
    /\ Count(At(lineArray, CapLines1), <<SP>>) > 1
    /\ Count(At(lineArray, CapLines2), <<SP>>) > 1


\* The markup-wrapped texts of a rendered side.
Rendered(html) == Range(html)

\* C23 (rendered view completeness): for every deletion, insertion or
\* substitution record, the rendered text of each affected side holds that
\* side's edit text wrapped in the markup of the record's type, whatever the
\* length of the text; the text of a same record is on both sides unwrapped.
C23_RenderedComplete ==
    Counted =>
        \A j \in Records :
            LET t == edit_dicts[j].edit_type IN
            /\ t \in {"deletion", "substitution"} =>
                  format_edit(OwnRunText(j, 1), t) \in Rendered(html1)
            /\ t \in {"insertion", "substitution"} =>
                  format_edit(OwnRunText(j, 2), t) \in Rendered(html2)
            /\ t = "same" =>
                  /\ plain(OwnRunText(j, 1)) \in Rendered(html1)
                  /\ plain(OwnRunText(j, 2)) \in Rendered(html2)


\* C24 (run and record alternation): in the runs diff_wordMode returns no run
\* is empty, no two adjacent runs have the same status, and an insert run is
\* never immediately followed by a delete run; and at every point of
\* handle_diff no two consecutive records are both same and no two are both
\* other than same.
C24_Alternation ==
    /\ Returned =>
          /\ \A k \in 1..Len(diff) : diff[k].text # <<>> /\ char_diff[k].text # <<>>
          /\ \A k \in 1..(Len(diff) - 1) :
                /\ diff[k].op # diff[k + 1].op
                /\ ~(diff[k].op = DIFF_INSERT /\ diff[k + 1].op = DIFF_DELETE)
    /\ Counted =>
          \A j \in 1..(Len(edit_dicts) - 1) :
              (edit_dicts[j].edit_type = "same") # (edit_dicts[j + 1].edit_type = "same")

\* handle_diff has returned three records or more for a diff that has a
\* delete run followed by an insert run and, elsewhere, an equal run.
C24_Witness ==
    /\ pc = "done"
    /\ Len(edit_dicts) >= 3
    /\ \E k \in 0..(last_index - 1) : DeleteThenInsert(k)
    /\ HasOp(diff, DIFF_EQUAL)
    /\ Len(diff) >= 4

====
